---- MODULE Spec2Model ----
(***************************************************************************)
(* TaskIQ backend: the two scoring functions of app/ai.py, and the         *)
(* endpoints and tables around them (SpecScoring checks the functions,     *)
(* Spec the endpoints from the first request on, SpecPopulated the         *)
(* endpoints over stored tasks, SpecTwice a repeated call, SpecRace two    *)
(* requests handled side by side).                                         *)
(*                                                                         *)
(*   _compute_score(deadline, estimated_duration)      -> priority 1..100  *)
(*   _estimate_task_size(title, description,                               *)
(*        estimated_duration, deadline, has_dependencies) -> (size,        *)
(*        rationale)                                                       *)
(*                                                                         *)
(* Text is a string.  Time is counted in whole seconds; a datetime is its   *)
(* wall-clock reading (seconds since day 0, 00:00:00) together with its    *)
(* utcoffset when it is timezone-aware.  None is a record with some =      *)
(* FALSE.                                                                  *)
(***************************************************************************)
EXTENDS Integers, Sequences, FiniteSets, TLC

VARIABLES
    clock,   \* the server's UTC clock: what datetime.utcnow() reads
    zone,    \* the server's utcoffset: datetime.now() reads clock + zone
    call,    \* the call being made: the function and its arguments
    ret,     \* what the call returned
    pc,      \* "ready" before the call, "done" after it
    users,                  \* table users: the ids of its rows
    tasks,                  \* table tasks: a set of rows
    task_priority_scores,   \* table task_priority_scores
    task_tshirt_scores,     \* table task_tshirt_scores
    task_dependencies,      \* table task_dependencies
    request,                \* the request served last
    response,               \* the answer it got
    served,                 \* how many requests have been served
    inflight,               \* the requests being handled side by side
    deleted                 \* history: the ids of the tasks that
                            \* DELETE /tasks/{task_id} has removed

\* the five tables
db == <<users, tasks, task_priority_scores, task_tshirt_scores, task_dependencies>>
\* the state of the HTTP application
api == <<db, request, response, served, inflight, deleted>>

vars == <<clock, zone, call, ret, pc, api>>

-----------------------------------------------------------------------------
(* Bounds of the inputs.                                                   *)

PastDays == 1           \* deadlines reach this many days before day 0
MaxNearDays == 5        \* every day 0..MaxNearDays is a deadline day
MaxSmallDuration == 4   \* every duration 0..MaxSmallDuration is drawn
MaxZoneHours == 1       \* utcoffsets of 0..MaxZoneHours hours are drawn

-----------------------------------------------------------------------------
(* Optional values.                                                        *)

NoneInt == [some |-> FALSE, val |-> 0]
NoneText == [some |-> FALSE, val |-> ""]
Some(v) == [some |-> TRUE, val |-> v]

\* Python truthiness of an Optional[int] and of an Optional[str]
TruthyInt(o) == o.some /\ o.val # 0
TruthyText(o) == o.some /\ Len(o.val) > 0

\* (x or 0) for an Optional[int]
OrZero(o) == IF TruthyInt(o) THEN o.val ELSE 0

-----------------------------------------------------------------------------
(* Time.                                                                   *)

SecondsPerDay == 86400
SecondsPerHour == SecondsPerDay \div 24

\* datetime.date(): the calendar day of a wall-clock reading
Date(wall) == wall \div SecondsPerDay

NoDeadline == [kind |-> "none", aware |-> FALSE, wall |-> 0, off |-> 0, ok |-> TRUE]
\* a naive datetime
Naive(w) == [kind |-> "datetime", aware |-> FALSE, wall |-> w, off |-> 0, ok |-> TRUE]
\* a timezone-aware datetime reading w on the wall clock of utcoffset o
Aware(w, o) == [kind |-> "datetime", aware |-> TRUE, wall |-> w, off |-> o, ok |-> TRUE]
\* the text of a datetime, as the String column tasks.deadline holds it
StrOf(dt) == [dt EXCEPT !.kind = "str"]
\* a non-empty text that is no timestamp
StrBad == [kind |-> "str", aware |-> FALSE, wall |-> 0, off |-> 0, ok |-> FALSE]

\* Python truthiness of the deadline argument: None is falsy, a datetime and
\* a non-empty str are truthy
TruthyDeadline(d) == d.kind # "none"


-----------------------------------------------------------------------------
(* Text.                                                                   *)

UpperLetters == "ABCDEFGHIJKLMNOPQRSTUVWXYZ"
LowerLetters == "abcdefghijklmnopqrstuvwxyz"

CharAt(s, i) == SubSeq(s, i, i)

\* str.lower() of one character
LowerChar(c) ==
    IF \E i \in 1..Len(UpperLetters) : CharAt(UpperLetters, i) = c
    THEN CharAt(LowerLetters, CHOOSE i \in 1..Len(UpperLetters) : CharAt(UpperLetters, i) = c)
    ELSE c

RECURSIVE Lower(_)
\* str.lower(): character by character, the text split in halves
Lower(s) ==
    IF Len(s) = 0 THEN ""
    ELSE IF Len(s) = 1 THEN LowerChar(s)
    ELSE LET h == Len(s) \div 2
         IN  Lower(SubSeq(s, 1, h)) \o Lower(SubSeq(s, h + 1, Len(s)))

\* kw in text
Contains(kw, text) ==
    \E i \in 1..(Len(text) - Len(kw) + 1) : SubSeq(text, i, i + Len(kw) - 1) = kw

RECURSIVE Join(_, _)
\* sep.join(parts)
Join(parts, sep) ==
    IF Len(parts) = 0 THEN ""
    ELSE IF Len(parts) = 1 THEN Head(parts)
    ELSE Head(parts) \o sep \o Join(Tail(parts), sep)

\* f"{x:.1f}" of x = secs / 86400 for secs >= 0: the nearest tenth of a day.
\* (A tie, secs = 4320 modulo 8640, is rounded by the binary value of x in
\* the code; no instant drawn below is a tie.)
OneDecimal(secs) ==
    LET tenths == (secs * 20 + SecondsPerDay) \div (2 * SecondsPerDay)
    IN  ToString(tenths \div 10) \o "." \o ToString(tenths % 10)

Abs(n) == IF n < 0 THEN -n ELSE n
Max(a, b) == IF a >= b THEN a ELSE b
Min(a, b) == IF a <= b THEN a ELSE b

-----------------------------------------------------------------------------
(* The texts drawn.                                                        *)

RECURSIVE Filler(_)
\* n filler characters
Filler(n) ==
    IF n <= 0 THEN ""
    ELSE IF n = 1 THEN "."
    ELSE Filler(n \div 2) \o Filler(n - n \div 2)

\* text padded with filler to n characters
Padded(text, n) == text \o Filler(n - Len(text))

Titles == {"Plan", "Fix typo", "Buy a", "Rapid", "Add API security"}

\* the character thresholds of factor 3
ScopeThresholds == {50, 200}

Descriptions ==
    {NoneText, Some("pie")}
        \cup {Some(Padded("Update the text", n)) : n \in ScopeThresholds}
        \cup {Some(Padded("Migrate", n + 1)) : n \in ScopeThresholds}

-----------------------------------------------------------------------------
(* The priority scorer.                                                    *)

\* a scorer that counts whole elapsed days, (deadline - now).days
days_until_deadline_elapsed(deadline, today) ==
    IF deadline.kind # "none" THEN (deadline.wall - today) \div SecondsPerDay ELSE 0

\* today is datetime.now(): the server's local wall clock
days_until_deadline(deadline, today) ==
    IF TruthyDeadline(deadline) THEN Date(deadline.wall) - Date(today) ELSE 0

\* a scorer that clamps at 0 instead of 1
_compute_score_floor0(deadline, estimated_duration, today) ==
    LET score == 100 - days_until_deadline(deadline, today) * 5
                     - OrZero(estimated_duration) * 3
    IN  Max(0, Min(100, score))

_compute_score(deadline, estimated_duration, today) ==
    LET score == 100 - days_until_deadline(deadline, today) * 5
                     - OrZero(estimated_duration) * 3
    IN  Max(1, Min(100, score))

-----------------------------------------------------------------------------
(* The size estimator, factor by factor.  Each factor yields the points it *)
(* adds to complexity_score and the clauses it appends to factors.         *)

\* Factor 1: Estimated duration (0-40 points)
Factor1(estimated_duration) ==
    IF TruthyInt(estimated_duration)
    THEN LET d == estimated_duration.val
             h == "duration: " \o ToString(d) \o "h "
         IN  IF d <= 2 THEN [pts |-> 5, factors |-> <<h \o "(quick)">>]
             ELSE IF d <= 8 THEN [pts |-> 15, factors |-> <<h \o "(moderate)">>]
             ELSE IF d <= 24 THEN [pts |-> 30, factors |-> <<h \o "(substantial)">>]
             ELSE [pts |-> 40, factors |-> <<h \o "(extensive)">>]
    ELSE [pts |-> 10, factors |-> <<"duration: unknown (assumed moderate)">>]

complex_keywords ==
    <<"refactor", "redesign", "migrate", "integrate", "architecture",
      "security", "performance", "optimization", "database", "api">>
simple_keywords == <<"fix", "update", "add", "remove", "change", "typo", "text">>

combined_text(title, description) ==
    Lower(title) \o " " \o Lower(IF TruthyText(description) THEN description.val ELSE "")

\* sum(1 for kw in keywords if kw in text)
KeywordCount(keywords, text) ==
    Cardinality({i \in 1..Len(keywords) : Contains(keywords[i], text)})

\* a factor 2 that looks at the simple keywords first
Factor2_simple_first(title, description) ==
    LET text == combined_text(title, description)
        complex_count == KeywordCount(complex_keywords, text)
        simple_count == KeywordCount(simple_keywords, text)
    IN  IF simple_count >= 1
        THEN [pts |-> 5, factors |-> <<"complexity: low (simple task)">>]
        ELSE IF complex_count >= 2
        THEN [pts |-> 30, factors |-> <<"complexity: high (multiple complex keywords)">>]
        ELSE IF complex_count >= 1
        THEN [pts |-> 20, factors |-> <<"complexity: moderate (complex keywords)">>]
        ELSE [pts |-> 15, factors |-> <<"complexity: moderate (neutral)">>]

\* Factor 2: Title/description complexity (0-30 points)
Factor2(title, description) ==
    LET text == combined_text(title, description)
        complex_count == KeywordCount(complex_keywords, text)
        simple_count == KeywordCount(simple_keywords, text)
    IN  IF complex_count >= 2
        THEN [pts |-> 30, factors |-> <<"complexity: high (multiple complex keywords)">>]
        ELSE IF complex_count >= 1
        THEN [pts |-> 20, factors |-> <<"complexity: moderate (complex keywords)">>]
        ELSE IF simple_count >= 1
        THEN [pts |-> 5, factors |-> <<"complexity: low (simple task)">>]
        ELSE [pts |-> 15, factors |-> <<"complexity: moderate (neutral)">>]

\* Factor 3: Description length (0-15 points)
Factor3(description) ==
    IF TruthyText(description) /\ Len(description.val) > 200
    THEN [pts |-> 15, factors |-> <<"scope: detailed requirements">>]
    ELSE IF TruthyText(description) /\ Len(description.val) > 50
    THEN [pts |-> 8, factors |-> <<"scope: moderate requirements">>]
    ELSE [pts |-> 3, factors |-> <<"scope: brief requirements">>]

\* a factor 4 that also looks into the stored t-shirt scores
Factor4_reading_rows(has_dependencies) ==
    IF has_dependencies \/ task_tshirt_scores # {}
    THEN [pts |-> 15, factors |-> <<"dependencies: yes (coordination needed)">>]
    ELSE [pts |-> 0, factors |-> <<>>]

\* Factor 4: Dependencies (0-15 points)
Factor4(has_dependencies) ==
    IF has_dependencies
    THEN [pts |-> 15, factors |-> <<"dependencies: yes (coordination needed)">>]
    ELSE [pts |-> 0, factors |-> <<>>]

\* The try block of factor 5 raises when dateutil cannot parse the text, and
\* when the datetime is timezone-aware: now is naive, and subtracting a
\* naive datetime from an aware one is a TypeError.
DeadlineRaises(deadline) ==
    \/ deadline.kind = "str" /\ ~deadline.ok
    \/ deadline.aware

\* (deadline_dt - now).total_seconds()
DeltaSeconds(deadline, now) == deadline.wall - now

\* a factor 5 whose buckets exclude their upper bounds
Factor5_exclusive(deadline, now) ==
    IF ~TruthyDeadline(deadline) THEN [pts |-> 0, factors |-> <<>>]
    ELSE IF DeadlineRaises(deadline)
    THEN [pts |-> 0, factors |-> <<"deadline: could not parse">>]
    ELSE LET secs == DeltaSeconds(deadline, now)
             days == "deadline: " \o OneDecimal(Abs(secs)) \o " days "
         IN  IF secs < 0
             THEN [pts |-> 15,
                   factors |-> <<"deadline: overdue by " \o OneDecimal(Abs(secs))
                                   \o " days (critical)">>]
             ELSE IF secs < 1 * SecondsPerDay
             THEN [pts |-> 15, factors |-> <<days \o "(critical)">>]
             ELSE IF secs < 3 * SecondsPerDay
             THEN [pts |-> 12, factors |-> <<days \o "(very urgent)">>]
             ELSE IF secs < 7 * SecondsPerDay
             THEN [pts |-> 8, factors |-> <<days \o "(urgent)">>]
             ELSE IF secs < 14 * SecondsPerDay
             THEN [pts |-> 4, factors |-> <<days \o "(moderate urgency)">>]
             ELSE [pts |-> 0, factors |-> <<days \o "(comfortable)">>]

\* a factor 5 whose except branch is a bare pass
Factor5_silent(deadline, now) ==
    IF ~TruthyDeadline(deadline) THEN [pts |-> 0, factors |-> <<>>]
    ELSE IF DeadlineRaises(deadline)
    THEN [pts |-> 0, factors |-> <<>>]
    ELSE LET secs == DeltaSeconds(deadline, now)
             days == "deadline: " \o OneDecimal(Abs(secs)) \o " days "
         IN  IF secs < 0
             THEN [pts |-> 15,
                   factors |-> <<"deadline: overdue by " \o OneDecimal(Abs(secs))
                                   \o " days (critical)">>]
             ELSE IF secs <= 1 * SecondsPerDay
             THEN [pts |-> 15, factors |-> <<days \o "(critical)">>]
             ELSE IF secs <= 3 * SecondsPerDay
             THEN [pts |-> 12, factors |-> <<days \o "(very urgent)">>]
             ELSE IF secs <= 7 * SecondsPerDay
             THEN [pts |-> 8, factors |-> <<days \o "(urgent)">>]
             ELSE IF secs <= 14 * SecondsPerDay
             THEN [pts |-> 4, factors |-> <<days \o "(moderate urgency)">>]
             ELSE [pts |-> 0, factors |-> <<days \o "(comfortable)">>]

\* Factor 5: Deadline urgency (0-15 points)
Factor5(deadline, now) ==
    IF ~TruthyDeadline(deadline) THEN [pts |-> 0, factors |-> <<>>]
    ELSE IF DeadlineRaises(deadline)
    THEN [pts |-> 0, factors |-> <<"deadline: could not parse">>]
    ELSE LET secs == DeltaSeconds(deadline, now)
             days == "deadline: " \o OneDecimal(secs) \o " days "
         IN  IF secs < 0
             THEN [pts |-> 15,
                   factors |-> <<"deadline: overdue by " \o OneDecimal(Abs(secs))
                                   \o " days (critical)">>]
             ELSE IF secs <= 1 * SecondsPerDay
             THEN [pts |-> 15, factors |-> <<days \o "(critical)">>]
             ELSE IF secs <= 3 * SecondsPerDay
             THEN [pts |-> 12, factors |-> <<days \o "(very urgent)">>]
             ELSE IF secs <= 7 * SecondsPerDay
             THEN [pts |-> 8, factors |-> <<days \o "(urgent)">>]
             ELSE IF secs <= 14 * SecondsPerDay
             THEN [pts |-> 4, factors |-> <<days \o "(moderate urgency)">>]
             ELSE [pts |-> 0, factors |-> <<days \o "(comfortable)">>]

\* a size map whose first threshold is exclusive
SizeOfScore_exclusive(complexity_score) ==
    IF complexity_score < 23 THEN "XS"
    ELSE IF complexity_score <= 46 THEN "S"
    ELSE IF complexity_score <= 69 THEN "M"
    ELSE IF complexity_score <= 92 THEN "L"
    ELSE "XL"

\* Map complexity score to T-shirt size
SizeOfScore(complexity_score) ==
    IF complexity_score <= 23 THEN "XS"
    ELSE IF complexity_score <= 46 THEN "S"
    ELSE IF complexity_score <= 69 THEN "M"
    ELSE IF complexity_score <= 92 THEN "L"
    ELSE "XL"

\* Factor 2 of the texts drawn, computed once for each
Factor2Of == [title \in Titles |-> [description \in Descriptions |-> Factor2(title, description)]]

\* Factor 2: looked up for the texts drawn, computed for any other
Factor2At(title, description) ==
    IF title \in Titles /\ description \in Descriptions
    THEN Factor2Of[title][description]
    ELSE Factor2(title, description)

\* the deadline factor applied before the dependency factor
AppliedFactors_swapped(title, description, estimated_duration, deadline, has_dependencies, now) ==
    <<Factor1(estimated_duration), Factor2At(title, description), Factor3(description),
      Factor5(deadline, now), Factor4(has_dependencies)>>

\* The factors in the order the function applies them
AppliedFactors(title, description, estimated_duration, deadline, has_dependencies, now) ==
    <<Factor1(estimated_duration), Factor2At(title, description), Factor3(description),
      Factor4(has_dependencies), Factor5(deadline, now)>>

RECURSIVE SumPts(_)
SumPts(fs) == IF Len(fs) = 0 THEN 0 ELSE Head(fs).pts + SumPts(Tail(fs))

RECURSIVE AllClauses(_)
AllClauses(fs) == IF Len(fs) = 0 THEN <<>> ELSE Head(fs).factors \o AllClauses(Tail(fs))

\* The locals complexity_score and factors when the function returns, and
\* the (size, rationale) it returns
_estimate_task_size(title, description, estimated_duration, deadline, has_dependencies, now) ==
    LET applied == AppliedFactors(title, description, estimated_duration, deadline,
                                  has_dependencies, now)
        score == SumPts(applied)
        clauses == AllClauses(applied)
    IN  [complexity_score |-> score,
         factors |-> clauses,
         size |-> SizeOfScore(score),
         rationale |-> "Score: " \o ToString(score) \o "/115. Factors: "
                           \o Join(clauses, "; ")]

-----------------------------------------------------------------------------
(* The inputs drawn.                                                       *)

\* the hour thresholds of factor 1
DurationThresholds == {2, 8, 24}

Durations ==
    (0..MaxSmallDuration) \cup DurationThresholds \cup {t + 1 : t \in DurationThresholds}

OptDurations == {NoneInt} \cup {Some(d) : d \in Durations}

\* the day thresholds of factor 5
UrgencyThresholds == {1, 3, 7, 14}

DeadlineDays ==
    ((-PastDays)..MaxNearDays) \cup UrgencyThresholds \cup {t + 1 : t \in UrgencyThresholds}

\* a deadline falls on the first or the second second of its day
Walls == {d * SecondsPerDay + s : d \in DeadlineDays, s \in {0, 1}}

\* the call is made in the first or in the last second of day 0 (UTC)
Clocks == {0, SecondsPerDay - 1}

\* the server runs on UTC or some hours east of it
Zones == {h * SecondsPerHour : h \in 0..MaxZoneHours}

NaiveDeadlines == {Naive(w) : w \in Walls}
AwareDeadlines == {Aware(w, o) : w \in Walls, o \in Zones \ {0}}

\* what pydantic hands to a handler: None or a datetime
DatetimeDeadlines == {NoDeadline} \cup NaiveDeadlines \cup AwareDeadlines

\* what the String column tasks.deadline hands to task_ai_size
StrDeadlines == {StrBad} \cup {StrOf(dt) : dt \in NaiveDeadlines}

SizeCalls ==
    [fn : {"_estimate_task_size"}, title : Titles, description : Descriptions,
     estimated_duration : OptDurations, deadline : DatetimeDeadlines \cup StrDeadlines,
     has_dependencies : BOOLEAN]

ScoreCalls ==
    [fn : {"_compute_score"}, title : {""}, description : {NoneText},
     estimated_duration : OptDurations, deadline : DatetimeDeadlines,
     has_dependencies : {FALSE}]

NoRet == [complexity_score |-> 0, factors |-> <<>>, size |-> "", rationale |-> "",
          priority_score |-> 0]

-----------------------------------------------------------------------------
(* The calls.                                                              *)

InitScoring ==
    /\ clock \in Clocks
    /\ zone \in Zones
    /\ call \in SizeCalls \cup ScoreCalls
    /\ ret = NoRet
    /\ pc = "ready"
    /\ users = {}
    /\ tasks = {} /\ task_priority_scores = {} /\ task_tshirt_scores = {}
    /\ task_dependencies = {}
    /\ request = [op |-> "none"] /\ response = [status |-> 0]
    /\ served = 0
    /\ inflight = << >>
    /\ deleted = {}

\* one call of _estimate_task_size; datetime.utcnow() reads clock
EstimateTaskSize ==
    /\ pc = "ready"
    /\ call.fn = "_estimate_task_size"
    /\ LET r == _estimate_task_size(call.title, call.description, call.estimated_duration,
                                    call.deadline, call.has_dependencies, clock)
       IN  ret' = [NoRet EXCEPT !.complexity_score = r.complexity_score,
                                !.factors = r.factors,
                                !.size = r.size,
                                !.rationale = r.rationale]
    /\ pc' = "done"
    /\ UNCHANGED <<clock, zone, call, api>>

\* one call of _compute_score; datetime.now() reads clock + zone
ComputeScore ==
    /\ pc = "ready"
    /\ call.fn = "_compute_score"
    /\ ret' = [NoRet EXCEPT !.priority_score =
                   _compute_score(call.deadline, call.estimated_duration, clock + zone)]
    /\ pc' = "done"
    /\ UNCHANGED <<clock, zone, call, api>>

NextScoring == EstimateTaskSize \/ ComputeScore

SpecScoring == InitScoring /\ [][NextScoring]_vars

-----------------------------------------------------------------------------
(* What the properties below read off a state.                             *)

Sized == pc = "done" /\ call.fn = "_estimate_task_size"
Scored == pc = "done" /\ call.fn = "_compute_score"

Sizes == <<"XS", "S", "M", "L", "XL">>
SizeRank(size) == CHOOSE i \in 1..Len(Sizes) : Sizes[i] = size

\* the score intervals of the five sizes, as the partition is stated
SizeInterval ==
    [XS |-> 0..23, S |-> 24..46, M |-> 47..69, L |-> 70..92, XL |-> 93..115]

\* C1: for every valid input complexity_score is an integer in 0..115 and
\* the size returned is the one whose interval (XS 0..23, S 24..46, M 47..69,
\* L 70..92, XL 93..115) holds the score.
C1_ScoreRangeAndSizePartition ==
    Sized =>
        /\ ret.complexity_score \in 0..115
        /\ ret.size \in DOMAIN SizeInterval
        /\ ret.complexity_score \in SizeInterval[ret.size]

\* the largest score, 115, is reached and sized XL
C1_Witness == Sized /\ ret.complexity_score = 115 /\ ret.size = "XL"

\* the day difference and the raw score as the formula is stated
StatedDays ==
    IF call.deadline.kind = "none" THEN 0
    ELSE (call.deadline.wall \div SecondsPerDay) - ((clock + zone) \div SecondsPerDay)
StatedDuration == IF call.estimated_duration.some THEN call.estimated_duration.val ELSE 0
StatedRaw == 100 - 5 * StatedDays - 3 * StatedDuration

\* C2: for every deadline (absent, past, today, future) and every duration
\* (absent or non-negative) the priority is an integer in 1..100; a raw value
\* below 1 becomes 1 and a raw value above 100 becomes 100.
C2_PriorityClamped ==
    Scored =>
        /\ ret.priority_score \in 1..100
        /\ (StatedRaw < 1 => ret.priority_score = 1)
        /\ (StatedRaw > 100 => ret.priority_score = 100)

\* a raw value below 1 is returned as 1
C2_Witness == Scored /\ StatedRaw < 1 /\ ret.priority_score = 1

\* C3: the priority is clamp(100 - 5*days - 3*dur, 1, 100), days the
\* difference of the calendar dates of the deadline and of today (0 without a
\* deadline, negative for a past one), dur the duration (0 when absent).
C3_PriorityFormula ==
    Scored =>
        ret.priority_score =
            IF StatedRaw < 1 THEN 1 ELSE IF StatedRaw > 100 THEN 100 ELSE StatedRaw

\* 5 days ahead with duration 4 gives 63, the call made late in the day
C3_Witness ==
    /\ Scored
    /\ StatedDays = 5
    /\ call.estimated_duration = Some(4)
    /\ call.deadline.wall - (clock + zone) < 5 * SecondsPerDay
    /\ ret.priority_score = 63

\* the points of each factor for the call of the state
DurationPts == Factor1(call.estimated_duration).pts
KeywordPts == Factor2Of[call.title][call.description].pts
ScopePts == Factor3(call.description).pts
DependencyPts == Factor4(call.has_dependencies).pts
UrgencyPts == Factor5(call.deadline, clock).pts

\* the duration points as they are stated: 10 for an absent duration only
StatedDurationPts ==
    IF ~call.estimated_duration.some THEN 10
    ELSE LET d == call.estimated_duration.val
         IN  IF d <= 2 THEN 5 ELSE IF d <= 8 THEN 15 ELSE IF d <= 24 THEN 30 ELSE 40

\* C4: the duration factor is 10 points only when estimated_duration is
\* absent; a present duration d, d = 0 included, scores 5 if d <= 2, 15 if
\* 2 < d <= 8, 30 if 8 < d <= 24 and 40 if d > 24.
C4_DurationFactor ==
    Sized =>
        ret.complexity_score - (KeywordPts + ScopePts + DependencyPts + UrgencyPts)
            = StatedDurationPts

\* the estimate of the state's call with another duration
WithDuration(d) ==
    _estimate_task_size(call.title, call.description, Some(d), call.deadline,
                        call.has_dependencies, clock)

\* C5: everything else and the time held fixed, a present duration d1 >= 0
\* and any longer duration d2 give scores with score(d2) >= score(d1), and
\* the size for d2 is no smaller bucket.
C5_DurationMonotone ==
    (Sized /\ call.estimated_duration.some) =>
        \A d2 \in Durations :
            d2 > call.estimated_duration.val =>
                /\ WithDuration(d2).complexity_score >= ret.complexity_score
                /\ SizeRank(WithDuration(d2).size) >= SizeRank(ret.size)

\* deadlines that name an instant: datetimes and the texts of datetimes
TimedDeadlines == (DatetimeDeadlines \cup StrDeadlines) \ {NoDeadline, StrBad}

\* a is an earlier instant than b.  An aware datetime names its instant; two
\* naive ones are compared on the same wall clock; a naive one against an
\* aware one is earlier (later) only if it is so on every wall clock,
\* utcoffsets running from -12 to +14 hours.
Earlier(a, b) ==
    IF a.aware = b.aware THEN a.wall - a.off < b.wall - b.off
    ELSE IF a.aware THEN a.wall - a.off < b.wall - 14 * SecondsPerHour
    ELSE a.wall + 12 * SecondsPerHour < b.wall - b.off

\* the results of the state's call with another deadline
SizeWithDeadline(t) ==
    _estimate_task_size(call.title, call.description, call.estimated_duration, t,
                        call.has_dependencies, clock)
ScoreWithDeadline(t) == _compute_score(t, call.estimated_duration, clock + zone)

\* C6: everything else and the time held fixed, of two present deadlines the
\* earlier one gets neither a lower complexity_score nor a lower priority
\* score than the later one.
C6_DeadlineMonotone ==
    /\ (Sized /\ call.deadline \in TimedDeadlines) =>
           \A t2 \in TimedDeadlines :
               Earlier(call.deadline, t2) =>
                   ret.complexity_score >= SizeWithDeadline(t2).complexity_score
    /\ (Scored /\ call.deadline \in TimedDeadlines) =>
           \A t2 \in TimedDeadlines \cap DatetimeDeadlines :
               Earlier(call.deadline, t2) =>
                   ret.priority_score >= ScoreWithDeadline(t2)

HasPrefix(s, p) == Len(s) >= Len(p) /\ SubSeq(s, 1, Len(p)) = p

\* how many keywords of a list occur in a text
Occurring(keywords, text) ==
    Cardinality({kw \in {keywords[i] : i \in 1..Len(keywords)} : Contains(kw, text)})

Counts(text) ==
    [c |-> Occurring(complex_keywords, text), s |-> Occurring(simple_keywords, text)]

TextOf(description) == IF description.some THEN description.val ELSE ""

\* c and s over the lower-cased title directly followed by the lower-cased
\* description, for the texts drawn
PlainCounts ==
    [t \in Titles |-> [d \in Descriptions |-> Counts(Lower(t) \o Lower(TextOf(d)))]]

\* c and s over the lower-cased title, one space, the lower-cased description
SpacedCounts ==
    [t \in Titles |-> [d \in Descriptions |-> Counts(Lower(t) \o " " \o Lower(TextOf(d)))]]

\* the keyword points as a function of c and s
StatedKeywordPts(n) ==
    IF n.c >= 2 THEN 30 ELSE IF n.c = 1 THEN 20 ELSE IF n.s >= 1 THEN 5 ELSE 15

KeywordPtsReturned ==
    ret.complexity_score - (DurationPts + ScopePts + DependencyPts + UrgencyPts)

\* C7 as stated: the keyword factor is a function of c and s, the numbers of
\* complex and simple keywords occurring in the lower-cased title
\* concatenated with the lower-cased description: c >= 2 gives 30, c = 1
\* gives 20, c = 0 and s >= 1 gives 5, c = 0 and s = 0 gives 15.
C7_KeywordFactor_Concatenated ==
    Sized => KeywordPtsReturned = StatedKeywordPts(PlainCounts[call.title][call.description])

\* C7 (amended): the same with c and s counted in the lower-cased title, one
\* space and the lower-cased description: a keyword never matches across
\* the end of the title.
C7_KeywordFactor ==
    Sized => KeywordPtsReturned = StatedKeywordPts(SpacedCounts[call.title][call.description])

\* one complex keyword overrides two simple ones
C7_Witness ==
    /\ Sized
    /\ SpacedCounts[call.title][call.description] = [c |-> 1, s |-> 2]
    /\ KeywordPtsReturned = 20

\* the seconds from now to a deadline that converts to a time difference
Converts(d) == d.kind # "none" /\ d.ok /\ ~d.aware
SecondsUntil == call.deadline.wall - clock

StatedUrgencyPts(secs) ==
    IF secs < 0 THEN 15
    ELSE IF secs <= 1 * SecondsPerDay THEN 15
    ELSE IF secs <= 3 * SecondsPerDay THEN 12
    ELSE IF secs <= 7 * SecondsPerDay THEN 8
    ELSE IF secs <= 14 * SecondsPerDay THEN 4
    ELSE 0

UrgencyPtsReturned ==
    ret.complexity_score - (DurationPts + KeywordPts + ScopePts + DependencyPts)

DeadlineGiven == call.deadline.kind # "none"

\* the factor each clause belongs to, in the stated order
StatedClauseOrder ==
    <<"duration: ", "complexity: ", "scope: ">>
        \o (IF call.has_dependencies THEN <<"dependencies: ">> ELSE <<>>)
        \o (IF DeadlineGiven THEN <<"deadline: ">> ELSE <<>>)

\* the points of the factors applied
StatedScore ==
    DurationPts + KeywordPts + ScopePts
        + (IF call.has_dependencies THEN DependencyPts ELSE 0)
        + (IF DeadlineGiven THEN UrgencyPts ELSE 0)

\* up to five clauses with "; " between them
Semicolons(f) ==
    f[1] \o "; " \o f[2] \o "; " \o f[3]
        \o (IF Len(f) >= 4 THEN "; " \o f[4] ELSE "")
        \o (IF Len(f) >= 5 THEN "; " \o f[5] ELSE "")

\* C9: the rationale is "Score: N/115. Factors: " and the clauses joined by
\* "; " in the order duration, complexity, scope, dependencies, deadline: the
\* first three always, the dependency clause exactly when has_dependencies,
\* the deadline clause exactly when a deadline is given; N is the sum of the
\* points of the factors applied.
C9_RationaleLayout ==
    Sized =>
        /\ Len(ret.factors) = Len(StatedClauseOrder)
        /\ \A i \in 1..Len(StatedClauseOrder) :
               HasPrefix(ret.factors[i], StatedClauseOrder[i])
        /\ ret.rationale =
               "Score: " \o ToString(StatedScore) \o "/115. Factors: "
                   \o Semicolons(ret.factors)

\* all five clauses are present
C9_Witness ==
    /\ Sized
    /\ call.has_dependencies
    /\ DeadlineGiven
    /\ Len(ret.factors) = 5

\* a deadline that is given and does not convert to a time difference
FailsToConvert(d) == d.kind # "none" /\ (~d.ok \/ d.aware)

\* C10: a deadline that is given but cannot be converted to a time
\* difference does not make the estimator fail: it adds 0 urgency points,
\* appends exactly one deadline clause, which notes the failure, keeps the
\* points of the other four factors, and a size and a rationale are returned.
C10_DeadlineFailureIsSoft ==
    (Sized /\ FailsToConvert(call.deadline)) =>
        /\ ret.complexity_score = DurationPts + KeywordPts + ScopePts + DependencyPts
        /\ Cardinality({i \in 1..Len(ret.factors) : HasPrefix(ret.factors[i], "deadline: ")}) = 1
        /\ ret.factors[Len(ret.factors)] = "deadline: could not parse"
        /\ ret.size \in {Sizes[i] : i \in 1..Len(Sizes)}
        /\ ret.complexity_score \in SizeInterval[ret.size]
        /\ HasPrefix(ret.rationale, "Score: " \o ToString(ret.complexity_score))

\* a timezone-aware deadline, with dependencies: the points are kept
C10_Witness ==
    /\ Sized
    /\ call.deadline.kind = "datetime"
    /\ call.deadline.aware
    /\ call.has_dependencies
    /\ ret.factors[Len(ret.factors)] = "deadline: could not parse"
    /\ ret.complexity_score >= 15

-----------------------------------------------------------------------------
(* The HTTP application: the tables of app/models.py as                    *)
(* Base.metadata.create_all makes them (app/main.py), the request models   *)
(* of app/schemas.py, app/crud.py and the routers.  A table is a set of    *)
(* rows; a request body is a record of the fields the client sent, so      *)
(* that a field left out and a field sent as null differ.  A handler       *)
(* builds the response body; the response model of the task endpoints is   *)
(* taken to pass the handler's fields through.                             *)

MaxTasks == 2        \* a run creates the task ids 1..MaxTasks
MaxUsers == 2        \* the registered, active users are 1..MaxUsers
MaxRequests == 3     \* a run serves this many requests
MaxRankItems == 2    \* an /ai/rank request lists 1..MaxRankItems items

Users == 1..MaxUsers

\* ids a request body can name: 0, every id a task can have, and one no
\* task has; ids a path can name: the same without 0
AskedIds == 0..(MaxTasks + 1)
PathIds == 1..(MaxTasks + 1)

\* INTEGER PRIMARY KEY of SQLite: one more than the largest id in the table
NextId(rows) ==
    IF rows = {} THEN 1
    ELSE (CHOOSE r \in rows : \A q \in rows : q.id <= r.id).id + 1

\* query(...).filter(column == value).first(), as a set of at most one row
ById(rows, id) == {r \in rows : r.id = id}
ByTask(rows, task_id) == {r \in rows : r.task_id = task_id}
TheRow(rows) == CHOOSE r \in rows : TRUE

\* v.strip() is empty
IsBlank(s) == \A i \in 1..Len(s) : CharAt(s, i) = " "

allowed_statuses == {"pending", "in_progress", "completed", "blocked"}
allowed_sizes == {"XS", "S", "M", "L", "XL"}

Has(body, field) == field \in DOMAIN body

\* the validators the task models share: status, t-shirt size, priority
\* score and duration of a body that carries them
ValidStatus(body, nullable) ==
    Has(body, "status") =>
        IF body.status.some THEN body.status.val \in allowed_statuses ELSE nullable
ValidTshirtSize(body) ==
    (Has(body, "tshirt_size") /\ body.tshirt_size.some) =>
        body.tshirt_size.val \in allowed_sizes
ValidPriorityScore(body) ==
    (Has(body, "priority_score") /\ body.priority_score.some) =>
        body.priority_score.val \in 1..100
ValidDuration(body) ==
    (Has(body, "estimated_duration") /\ body.estimated_duration.some) =>
        body.estimated_duration.val >= 0
ValidTitle(body) ==
    /\ Has(body, "title") /\ body.title.some
    /\ ~IsBlank(body.title.val)

\* schemas.TaskCreate accepts the body
TaskCreateAccepts(body) ==
    /\ ValidTitle(body)
    /\ ValidStatus(body, FALSE)
    /\ ValidDuration(body)
    /\ ValidTshirtSize(body)
    /\ ValidPriorityScore(body)

\* schemas.TaskUpdate accepts the body: no validator reads the title, and
\* the status validator lets null through
TaskUpdateAccepts(body) ==
    /\ ValidStatus(body, TRUE)
    /\ ValidDuration(body)
    /\ ValidTshirtSize(body)
    /\ ValidPriorityScore(body)

\* schemas.TaskSizeRequest and schemas.AIRankRequestTask
TaskSizeRequestAccepts(body) == ValidTitle(body) /\ ValidDuration(body)
AIRankRequestTaskAccepts(item) ==
    /\ Has(item, "title") /\ item.title.some
    /\ ValidDuration(item)

\* a field of a body, or the model's default when the client left it out
Field(body, field, default) == IF Has(body, field) THEN body[field] ELSE default

\* what a String column holds once a datetime was written to it
Stored(deadline) == IF deadline.kind = "datetime" THEN StrOf(deadline) ELSE deadline

-----------------------------------------------------------------------------
(* The task endpoints (app/tasks.py over app/crud.py).                     *)

\* the deadline the requests carry: midnight, MaxNearDays days after day 0
ApiDeadline == Naive(MaxNearDays * SecondsPerDay)
ApiDuration == Some(MaxSmallDuration)

Plan == [title |-> Some("Plan")]

\* bodies of POST /tasks: four that TaskCreate accepts, then one per
\* validator that rejects
CreateBodies ==
    { Plan,
      Plan @@ [deadline |-> ApiDeadline, estimated_duration |-> ApiDuration],
      Plan @@ [status |-> Some("completed")],
      Plan @@ [priority_score |-> Some(50), tshirt_size |-> Some("M")],
      [title |-> Some(" ")],
      Plan @@ [status |-> Some("done")],
      Plan @@ [status |-> NoneText],
      Plan @@ [estimated_duration |-> Some(-1)],
      Plan @@ [priority_score |-> Some(0)],
      Plan @@ [tshirt_size |-> Some("XXL")] }

\* bodies of PUT /tasks/{task_id}, of one field each: a value, null, and a
\* value the field's validator rejects
UpdateBodies ==
    { [title |-> Some("Fix typo")], [title |-> Some(" ")], [title |-> NoneText],
      [status |-> Some("blocked")], [status |-> NoneText], [status |-> Some("done")],
      [estimated_duration |-> Some(-1)],
      [priority_score |-> Some(100)], [priority_score |-> Some(101)],
      [tshirt_size |-> Some("L")], [tshirt_size |-> Some("XXL")] }

\* the dict a task handler returns for the row t
TaskOut(t) ==
    LET score == IF ByTask(task_priority_scores', t.id) # {}
                 THEN Some(TheRow(ByTask(task_priority_scores', t.id)).score)
                 ELSE NoneInt
        tshirt == IF ByTask(task_tshirt_scores', t.id) # {}
                  THEN Some(TheRow(ByTask(task_tshirt_scores', t.id)).tshirt_size)
                  ELSE NoneText
    IN  [id |-> t.id, title |-> t.title, description |-> t.description,
         deadline |-> t.deadline,
         estimated_duration |-> OrZero(t.estimated_duration),
         status |-> t.status,
         priority_score |-> OrZero(score),
         tshirt_size |-> tshirt]

\* the answer of a handler that raised, or that FastAPI never called; the
\* body of a 200 is a record, a list being held in its one field
Error(code) == [status |-> code]
Ok(body) == [status |-> 200, body |-> body]

\* the task a request removes: the one DELETE /tasks/{task_id} names, when
\* it is there and the caller owns it
DeletedBy(req) ==
    IF req.op = "delete_task"
    THEN {t.id : t \in {r \in ById(tasks, req.task_id) : r.user_id = req.caller}}
    ELSE {}

\* every handler serves one request; the scoring calls stand still
Serve(req) ==
    /\ served < MaxRequests
    /\ served' = served + 1
    /\ request' = req
    /\ deleted' = deleted \cup DeletedBy(req)
    /\ UNCHANGED <<clock, zone, call, ret, pc, inflight>>

\* POST /tasks
CreateTask ==
    \E caller \in users, body \in CreateBodies :
        /\ Serve([op |-> "create_task", caller |-> caller, body |-> body])
        /\ NextId(tasks) <= MaxTasks
        /\ UNCHANGED <<users, task_dependencies>>
        /\ IF ~TaskCreateAccepts(body)
           THEN /\ response' = Error(422)
                /\ UNCHANGED <<tasks, task_priority_scores, task_tshirt_scores>>
           ELSE LET db_task == [id |-> NextId(tasks),
                                user_id |-> caller,
                                title |-> body.title.val,
                                description |-> Field(body, "description", NoneText),
                                deadline |-> Stored(Field(body, "deadline", NoDeadline)),
                                estimated_duration |->
                                    Field(body, "estimated_duration", NoneInt),
                                status |-> Field(body, "status", Some("pending"))]
                    tshirt_size == Field(body, "tshirt_size", NoneText)
                    priority_score == Field(body, "priority_score", NoneInt)
                    \* the second commit breaks UNIQUE(task_id) when a row
                    \* with the new task's id is there already
                    conflict ==
                        \/ TruthyText(tshirt_size)
                              /\ ByTask(task_tshirt_scores, db_task.id) # {}
                        \/ TruthyInt(priority_score)
                              /\ ByTask(task_priority_scores, db_task.id) # {}
                IN  /\ tasks' = tasks \cup {db_task}
                    /\ task_tshirt_scores' =
                           IF TruthyText(tshirt_size) /\ ~conflict
                           THEN task_tshirt_scores \cup
                                    {[id |-> NextId(task_tshirt_scores),
                                      task_id |-> db_task.id,
                                      tshirt_size |-> tshirt_size.val,
                                      rationale |-> Some("User specified")]}
                           ELSE task_tshirt_scores
                    /\ task_priority_scores' =
                           IF TruthyInt(priority_score) /\ ~conflict
                           THEN task_priority_scores \cup
                                    {[id |-> NextId(task_priority_scores),
                                      task_id |-> db_task.id,
                                      score |-> priority_score.val]}
                           ELSE task_priority_scores
                    /\ response' = IF conflict THEN Error(500) ELSE Ok(TaskOut(db_task))

\* GET /tasks/{task_id}
GetTask ==
    \E caller \in users, task_id \in PathIds :
        /\ Serve([op |-> "get_task", caller |-> caller, task_id |-> task_id])
        /\ UNCHANGED db
        /\ response' =
               IF ById(tasks, task_id) = {} THEN Error(404)
               ELSE IF TheRow(ById(tasks, task_id)).user_id # caller THEN Error(403)
               ELSE Ok(TaskOut(TheRow(ById(tasks, task_id))))

\* GET /tasks
GetTasks ==
    \E caller \in users :
        /\ Serve([op |-> "get_tasks", caller |-> caller])
        /\ UNCHANGED db
        /\ response' = Ok([tasks |-> {TaskOut(t) : t \in {r \in tasks : r.user_id = caller}}])

\* the columns of tasks a TaskUpdate body can set
TaskColumns == {"title", "description", "deadline", "estimated_duration", "status"}

\* task.dict() without exclude_unset: a column the body leaves out is
\* written as null (the title, which has no default, is left alone)
SetColumns_unset_as_null(t, body) ==
    [c \in DOMAIN t |->
        IF c \in TaskColumns /\ Has(body, c)
        THEN CASE c = "title" -> body.title.val
               [] c = "deadline" -> Stored(body.deadline)
               [] OTHER -> body[c]
        ELSE CASE c = "deadline" -> NoDeadline
               [] c = "estimated_duration" -> NoneInt
               [] c \in {"description", "status"} -> NoneText
               [] OTHER -> t[c]]

\* setattr(db_task, key, value) for every column the body carries
SetColumns(t, body) ==
    [c \in DOMAIN t |->
        IF c \in TaskColumns /\ Has(body, c)
        THEN CASE c = "title" -> body.title.val
               [] c = "deadline" -> Stored(body.deadline)
               [] OTHER -> body[c]
        ELSE t[c]]

\* PUT /tasks/{task_id}
UpdateTask ==
    \E caller \in users, task_id \in PathIds, body \in UpdateBodies :
        /\ Serve([op |-> "update_task", caller |-> caller, task_id |-> task_id,
                  body |-> body])
        /\ UNCHANGED <<users, task_dependencies>>
        /\ IF ~TaskUpdateAccepts(body)
           THEN /\ response' = Error(422)
                /\ UNCHANGED <<tasks, task_priority_scores, task_tshirt_scores>>
           ELSE IF ById(tasks, task_id) = {}
           THEN /\ response' = Error(404)
                /\ UNCHANGED <<tasks, task_priority_scores, task_tshirt_scores>>
           ELSE IF TheRow(ById(tasks, task_id)).user_id # caller
           THEN /\ response' = Error(403)
                /\ UNCHANGED <<tasks, task_priority_scores, task_tshirt_scores>>
           ELSE IF Has(body, "title") /\ ~body.title.some
           THEN \* tasks.title is NOT NULL: the commit raises IntegrityError
                /\ response' = Error(500)
                /\ UNCHANGED <<tasks, task_priority_scores, task_tshirt_scores>>
           ELSE LET db_task == TheRow(ById(tasks, task_id))
                    priority_score == Field(body, "priority_score", NoneInt)
                    tshirt_size == Field(body, "tshirt_size", NoneText)
                    updated == SetColumns(db_task, body)
                IN  /\ tasks' = (tasks \ {db_task}) \cup {updated}
                    /\ task_priority_scores' =
                           IF ~priority_score.some THEN task_priority_scores
                           ELSE IF ByTask(task_priority_scores, task_id) # {}
                           THEN {IF r.task_id = task_id
                                 THEN [r EXCEPT !.score = priority_score.val]
                                 ELSE r : r \in task_priority_scores}
                           ELSE task_priority_scores \cup
                                    {[id |-> NextId(task_priority_scores),
                                      task_id |-> task_id,
                                      score |-> priority_score.val]}
                    /\ task_tshirt_scores' =
                           IF ~tshirt_size.some THEN task_tshirt_scores
                           ELSE IF ByTask(task_tshirt_scores, task_id) # {}
                           THEN {IF r.task_id = task_id
                                 THEN [r EXCEPT !.tshirt_size = tshirt_size.val]
                                 ELSE r : r \in task_tshirt_scores}
                           ELSE task_tshirt_scores \cup
                                    {[id |-> NextId(task_tshirt_scores),
                                      task_id |-> task_id,
                                      tshirt_size |-> tshirt_size.val,
                                      rationale |-> NoneText]}
                    /\ response' = Ok(TaskOut(updated))

\* db.delete of the tasks ids: the relationships of Task (cascade="all,
\* delete-orphan") take the scores of those tasks with them, and the
\* dependency rows that name one of them on either side
ScoresOff(rows, ids) == {r \in rows : r.task_id \notin ids}

\* a cascade over Task.dependencies alone
DependenciesOff_dependent_side(deps, ids) == {d \in deps : d.task_id \notin ids}

DependenciesOff(deps, ids) ==
    {d \in deps : d.task_id \notin ids /\ d.depends_on_task_id \notin ids}

\* DELETE /tasks/{task_id}
DeleteTask ==
    \E caller \in users, task_id \in PathIds :
        /\ Serve([op |-> "delete_task", caller |-> caller, task_id |-> task_id])
        /\ IF ById(tasks, task_id) = {}
           THEN response' = Error(404) /\ UNCHANGED db
           ELSE IF TheRow(ById(tasks, task_id)).user_id # caller
           THEN response' = Error(403) /\ UNCHANGED db
           ELSE /\ tasks' = tasks \ ById(tasks, task_id)
                /\ task_priority_scores' = ScoresOff(task_priority_scores, {task_id})
                /\ task_tshirt_scores' = ScoresOff(task_tshirt_scores, {task_id})
                /\ task_dependencies' = DependenciesOff(task_dependencies, {task_id})
                /\ response' = Ok([ok |-> TRUE])
                /\ UNCHANGED users

\* ids a path can name for a user: every registered one, and one more
UserPathIds == 1..(MaxUsers + 1)

\* DELETE /users/{user_id}: any active user may ask; User.tasks cascades
\* the delete to the user's tasks, and each task cascades as above
DeleteUser ==
    \E caller \in users, user_id \in UserPathIds :
        /\ Serve([op |-> "delete_user", caller |-> caller, user_id |-> user_id])
        /\ IF user_id \notin users
           THEN response' = Error(404) /\ UNCHANGED db
           ELSE LET owned == {t.id : t \in {r \in tasks : r.user_id = user_id}}
                IN  /\ users' = users \ {user_id}
                    /\ tasks' = {t \in tasks : t.user_id # user_id}
                    /\ task_priority_scores' = ScoresOff(task_priority_scores, owned)
                    /\ task_tshirt_scores' = ScoresOff(task_tshirt_scores, owned)
                    /\ task_dependencies' = DependenciesOff(task_dependencies, owned)
                    /\ response' = Ok([ok |-> TRUE])

-----------------------------------------------------------------------------
(* The scoring endpoints (app/ai.py).                                      *)

\* the items of an /ai/rank request: one per id a path can name and one
\* without an id, one that scores task 1 without deadline or duration, and
\* one the validator rejects
RankItem(task_id, deadline, estimated_duration) ==
    [title |-> Some("Plan"), task_id |-> task_id, deadline |-> deadline,
     estimated_duration |-> estimated_duration]

RankItems ==
    {RankItem(t, ApiDeadline, ApiDuration) : t \in {NoneInt} \cup {Some(i) : i \in PathIds}}
    \cup {RankItem(Some(1), NoDeadline, NoneInt), RankItem(Some(1), NoDeadline, Some(-1))}

RECURSIVE ItemLists(_)
ItemLists(n) ==
    IF n = 0 THEN {<< >>}
    ELSE {<<i>> \o l : i \in RankItems, l \in ItemLists(n - 1)}

\* the requests: every list with persist, the lists of one item without
RankRequests ==
    {[items |-> l, persist |-> TRUE] : l \in UNION {ItemLists(n) : n \in 1..MaxRankItems}}
    \cup {[items |-> l, persist |-> FALSE] : l \in ItemLists(1)}

\* the loop of ai_rank from item idx on: the rows of task_priority_scores
\* committed so far and the results appended so far, or the 400 of the item
\* that stopped it
RECURSIVE RankFrom(_, _, _, _, _)
RankFrom(items, idx, persist, scores, results) ==
    IF idx > Len(items) THEN [status |-> 200, scores |-> scores, results |-> results]
    ELSE
        LET task == items[idx]
            score == _compute_score(task.deadline, task.estimated_duration, clock + zone)
            result == [task_id |-> IF TruthyInt(task.task_id) THEN task.task_id.val ELSE idx,
                       priority_score |-> score]
        IN  IF ~persist
            THEN RankFrom(items, idx + 1, persist, scores, Append(results, result))
            ELSE IF ~TruthyInt(task.task_id)
            THEN [status |-> 400, scores |-> scores, results |-> results]
            ELSE IF ById(tasks, task.task_id.val) = {}
            THEN [status |-> 400, scores |-> scores, results |-> results]
            ELSE LET existing == ByTask(scores, task.task_id.val)
                     upserted ==
                         IF existing # {}
                         THEN {IF r.task_id = task.task_id.val
                               THEN [r EXCEPT !.score = score] ELSE r : r \in scores}
                         ELSE scores \cup {[id |-> NextId(scores),
                                            task_id |-> task.task_id.val,
                                            score |-> score]}
                 IN  RankFrom(items, idx + 1, persist, upserted, Append(results, result))

\* POST /ai/rank
AiRank ==
    \E rank \in RankRequests :
      LET items == rank.items
          persist == rank.persist
      IN
        /\ Serve([op |-> "ai_rank", items |-> items, persist |-> persist])
        /\ UNCHANGED <<users, tasks, task_tshirt_scores, task_dependencies>>
        /\ IF \E i \in 1..Len(items) : ~AIRankRequestTaskAccepts(items[i])
           THEN response' = Error(422) /\ UNCHANGED task_priority_scores
           ELSE LET out == RankFrom(items, 1, persist, task_priority_scores, << >>)
                IN  /\ task_priority_scores' = out.scores
                    /\ response' = IF out.status = 200 THEN Ok([results |-> out.results])
                                   ELSE Error(out.status)

\* bodies of POST /ai/size: one per id a request can name and one without
\* an id, one without deadline or duration, and one per validator that
\* rejects
SizeBody(title, task_id, deadline, estimated_duration) ==
    [title |-> Some(title), description |-> NoneText,
     estimated_duration |-> estimated_duration, deadline |-> deadline,
     has_dependencies |-> FALSE, task_id |-> task_id]

SizeBodies ==
    {SizeBody("Plan", t, ApiDeadline, ApiDuration) :
        t \in {NoneInt} \cup {Some(i) : i \in AskedIds}}
    \cup {SizeBody("Plan", Some(1), NoDeadline, NoneInt),
          SizeBody(" ", Some(1), NoDeadline, NoneInt),
          SizeBody("Plan", Some(1), NoDeadline, Some(-1))}

\* an upsert that leaves the rationale of a row it finds
UpsertTshirt_keep_rationale(rows, task_id, size, rationale) ==
    IF ByTask(rows, task_id) # {}
    THEN {IF r.task_id = task_id THEN [r EXCEPT !.tshirt_size = size] ELSE r : r \in rows}
    ELSE rows \cup {[id |-> NextId(rows), task_id |-> task_id,
                     tshirt_size |-> size, rationale |-> Some(rationale)]}

\* the upsert of ai_size and task_ai_size into task_tshirt_scores
UpsertTshirt(rows, task_id, size, rationale) ==
    IF ByTask(rows, task_id) # {}
    THEN {IF r.task_id = task_id
          THEN [r EXCEPT !.tshirt_size = size, !.rationale = Some(rationale)]
          ELSE r : r \in rows}
    ELSE rows \cup {[id |-> NextId(rows), task_id |-> task_id,
                     tshirt_size |-> size, rationale |-> Some(rationale)]}

AISizeResponse(estimate) ==
    Ok([recommended_size |-> estimate.size, rationale |-> estimate.rationale])

\* a guard that asks for persist alone
WantsStored_without_id(persist, task_id) == persist

\* `if persist and request.task_id:` of ai_size
WantsStored(persist, task_id) == persist /\ TruthyInt(task_id)

\* POST /ai/size
AiSize ==
    \E body \in SizeBodies, persist \in BOOLEAN :
        /\ Serve([op |-> "ai_size", body |-> body, persist |-> persist])
        /\ UNCHANGED <<users, tasks, task_priority_scores, task_dependencies>>
        /\ IF ~TaskSizeRequestAccepts(body)
           THEN response' = Error(422) /\ UNCHANGED task_tshirt_scores
           ELSE LET estimate ==
                        _estimate_task_size(body.title.val, body.description,
                                            body.estimated_duration, body.deadline,
                                            body.has_dependencies, clock)
                IN  IF WantsStored(persist, body.task_id)
                    THEN IF ById(tasks, body.task_id.val) = {}
                         THEN response' = Error(400) /\ UNCHANGED task_tshirt_scores
                         ELSE /\ task_tshirt_scores' =
                                     UpsertTshirt(task_tshirt_scores, body.task_id.val,
                                                  estimate.size, estimate.rationale)
                              /\ response' = AISizeResponse(estimate)
                    ELSE response' = AISizeResponse(estimate)
                         /\ UNCHANGED task_tshirt_scores

\* POST /tasks/{task_id}/ai/size
TaskAiSize ==
    \E task_id \in PathIds, persist \in BOOLEAN :
        /\ Serve([op |-> "task_ai_size", task_id |-> task_id, persist |-> persist])
        /\ UNCHANGED <<users, tasks, task_priority_scores, task_dependencies>>
        /\ IF ById(tasks, task_id) = {}
           THEN response' = Error(404) /\ UNCHANGED task_tshirt_scores
           ELSE LET db_task == TheRow(ById(tasks, task_id))
                    has_dependencies == ByTask(task_dependencies, task_id) # {}
                    estimate ==
                        _estimate_task_size(db_task.title, db_task.description,
                                            db_task.estimated_duration, db_task.deadline,
                                            has_dependencies, clock)
                IN  /\ task_tshirt_scores' =
                           IF persist
                           THEN UpsertTshirt(task_tshirt_scores, task_id,
                                             estimate.size, estimate.rationale)
                           ELSE task_tshirt_scores
                    /\ response' = AISizeResponse(estimate)

-----------------------------------------------------------------------------
(* The score and dependency endpoints (app/priority_scores.py,             *)
(* app/tshirt_scores.py, app/task_dependencies.py over app/crud.py).  The  *)
(* tables carry UNIQUE(task_id) on both score tables; app/database.py      *)
(* opens SQLite without PRAGMA foreign_keys, so no foreign key is          *)
(* enforced.  An IntegrityError of the commit leaves the handler as a 500. *)

\* bodies of TaskPriorityScoreCreate and TaskTShirtScoreCreate: no validator
PriorityScoreBodies == [task_id : PathIds, score : {0, 50}]
TshirtScoreBodies == [task_id : PathIds, tshirt_size : {"S", "XXL"}, rationale : {NoneText}]
DependencyBodies == [task_id : PathIds, depends_on_task_id : PathIds]

\* the insert into a table without UNIQUE(task_id)
InsertScore_not_unique(rows, body) ==
    [status |-> 200, rows |-> rows \cup {[id |-> NextId(rows)] @@ body}]

\* crud.create_*_score: the row is inserted as the body gives it
InsertScore(rows, body) ==
    IF ByTask(rows, body.task_id) # {} THEN [status |-> 500, rows |-> rows]
    ELSE [status |-> 200, rows |-> rows \cup {[id |-> NextId(rows)] @@ body}]

\* crud.update_*_score: every field of the body is set on the row
SetScore(rows, score_id, body) ==
    IF ById(rows, score_id) = {} THEN [status |-> 404, rows |-> rows]
    ELSE IF \E r \in rows : r.id # score_id /\ r.task_id = body.task_id
    THEN [status |-> 500, rows |-> rows]
    ELSE [status |-> 200,
          rows |-> (rows \ ById(rows, score_id)) \cup {[id |-> score_id] @@ body}]

\* crud.delete_*: the row of that id, when there is one
DeleteRow(rows, id) ==
    IF ById(rows, id) = {} THEN [status |-> 404, rows |-> rows]
    ELSE [status |-> 200, rows |-> rows \ ById(rows, id)]

\* the answer of a score or dependency endpoint
RowResponse(out, body) == IF out.status = 200 THEN Ok(body) ELSE Error(out.status)

\* POST /task_priority_scores
CreatePriorityScore ==
    \E body \in PriorityScoreBodies :
        LET out == InsertScore(task_priority_scores, body)
        IN  /\ Serve([op |-> "create_score", body |-> body])
            /\ task_priority_scores' = out.rows
            /\ response' = RowResponse(out, [id |-> NextId(task_priority_scores)] @@ body)
            /\ UNCHANGED <<users, tasks, task_tshirt_scores, task_dependencies>>

\* PUT /task_priority_scores/{score_id}
UpdatePriorityScore ==
    \E score_id \in PathIds, body \in PriorityScoreBodies :
        LET out == SetScore(task_priority_scores, score_id, body)
        IN  /\ Serve([op |-> "update_score", score_id |-> score_id, body |-> body])
            /\ task_priority_scores' = out.rows
            /\ response' = RowResponse(out, [id |-> score_id] @@ body)
            /\ UNCHANGED <<users, tasks, task_tshirt_scores, task_dependencies>>

\* DELETE /task_priority_scores/{score_id}
DeletePriorityScore ==
    \E score_id \in PathIds :
        LET out == DeleteRow(task_priority_scores, score_id)
        IN  /\ Serve([op |-> "delete_score", score_id |-> score_id])
            /\ task_priority_scores' = out.rows
            /\ response' = RowResponse(out, [ok |-> TRUE])
            /\ UNCHANGED <<users, tasks, task_tshirt_scores, task_dependencies>>

\* POST /task_tshirt_scores
CreateTshirtScore ==
    \E body \in TshirtScoreBodies :
        LET out == InsertScore(task_tshirt_scores, body)
        IN  /\ Serve([op |-> "create_tshirt", body |-> body])
            /\ task_tshirt_scores' = out.rows
            /\ response' = RowResponse(out, [id |-> NextId(task_tshirt_scores)] @@ body)
            /\ UNCHANGED <<users, tasks, task_priority_scores, task_dependencies>>

\* PUT /task_tshirt_scores/{score_id}
UpdateTshirtScore ==
    \E score_id \in PathIds, body \in TshirtScoreBodies :
        LET out == SetScore(task_tshirt_scores, score_id, body)
        IN  /\ Serve([op |-> "update_tshirt", score_id |-> score_id, body |-> body])
            /\ task_tshirt_scores' = out.rows
            /\ response' = RowResponse(out, [id |-> score_id] @@ body)
            /\ UNCHANGED <<users, tasks, task_priority_scores, task_dependencies>>

\* DELETE /task_tshirt_scores/{score_id}
DeleteTshirtScore ==
    \E score_id \in PathIds :
        LET out == DeleteRow(task_tshirt_scores, score_id)
        IN  /\ Serve([op |-> "delete_tshirt", score_id |-> score_id])
            /\ task_tshirt_scores' = out.rows
            /\ response' = RowResponse(out, [ok |-> TRUE])
            /\ UNCHANGED <<users, tasks, task_priority_scores, task_dependencies>>

\* POST /tasks/dependencies: the model declares no constraint on the pair
CreateDependency ==
    \E body \in DependencyBodies :
        /\ Serve([op |-> "create_dep", body |-> body])
        /\ task_dependencies' =
               task_dependencies \cup {[id |-> NextId(task_dependencies)] @@ body}
        /\ response' = Ok([id |-> NextId(task_dependencies)] @@ body)
        /\ UNCHANGED <<users, tasks, task_priority_scores, task_tshirt_scores>>

\* DELETE /tasks/dependencies/{dep_id}
DeleteDependency ==
    \E dep_id \in PathIds :
        LET out == DeleteRow(task_dependencies, dep_id)
        IN  /\ Serve([op |-> "delete_dep", dep_id |-> dep_id])
            /\ task_dependencies' = out.rows
            /\ response' = RowResponse(out, [ok |-> TRUE])
            /\ UNCHANGED <<users, tasks, task_priority_scores, task_tshirt_scores>>

-----------------------------------------------------------------------------
(* The application: the registered users and no task yet, then one         *)
(* request after another.                                                  *)

Init ==
    /\ clock = 0
    /\ zone = 0
    /\ call = [fn |-> "none"]
    /\ ret = NoRet
    /\ pc = "serving"
    /\ users = Users
    /\ tasks = {} /\ task_priority_scores = {} /\ task_tshirt_scores = {}
    /\ task_dependencies = {}
    /\ request = [op |-> "none"] /\ response = [status |-> 0]
    /\ served = 0
    /\ inflight = << >>
    /\ deleted = {}

Next ==
    \/ CreateTask \/ GetTask \/ GetTasks \/ UpdateTask \/ DeleteTask
    \/ DeleteUser
    \/ AiRank \/ AiSize \/ TaskAiSize
    \/ CreatePriorityScore \/ UpdatePriorityScore \/ DeletePriorityScore
    \/ CreateTshirtScore \/ UpdateTshirtScore \/ DeleteTshirtScore
    \/ CreateDependency \/ DeleteDependency

Spec == Init /\ [][Next]_vars

-----------------------------------------------------------------------------
(* What the properties below read off a state of the application.          *)

ClientError == 400..499

\* the request served last was op
Did(op) == request.op = op

\* the task a request names in its path, as the table holds it
Named == ById(tasks, request.task_id)

\* C11: no size estimate is produced for a blank title: an /ai/size request
\* whose title is empty or whitespace-only, and a /tasks/{task_id}/ai/size
\* call on a task whose stored title is empty or whitespace-only, are both
\* answered with a client error.
C11_BlankTitleRejected ==
    /\ (Did("ai_size") /\ IsBlank(request.body.title.val))
           => response.status \in ClientError
    /\ (Did("task_ai_size") /\ \E t \in Named : IsBlank(t.title))
           => response.status \in ClientError

-----------------------------------------------------------------------------
(* The scoring functions called with a negative duration: the calls of     *)
(* SpecScoring, made with the durations -1, -2, ... instead.               *)

NegativeDurations == {Some(-d) : d \in 1..MaxSmallDuration}

NegativeCalls ==
    [fn : {"_estimate_task_size"}, title : {"Plan"}, description : {NoneText},
     estimated_duration : NegativeDurations, deadline : DatetimeDeadlines,
     has_dependencies : BOOLEAN]
    \cup
    [fn : {"_compute_score"}, title : {""}, description : {NoneText},
     estimated_duration : NegativeDurations, deadline : DatetimeDeadlines,
     has_dependencies : {FALSE}]

InitNegative ==
    /\ clock \in Clocks
    /\ zone \in Zones
    /\ call \in NegativeCalls
    /\ ret = NoRet
    /\ pc = "ready"
    /\ users = {}
    /\ tasks = {} /\ task_priority_scores = {} /\ task_tshirt_scores = {}
    /\ task_dependencies = {}
    /\ request = [op |-> "none"] /\ response = [status |-> 0]
    /\ served = 0
    /\ inflight = << >>
    /\ deleted = {}

SpecNegative == InitNegative /\ [][NextScoring]_vars

\* the call returned a size or a priority score
Returned == pc = "done" /\ ret # NoRet

Negative(duration) == duration.some /\ duration.val < 0

EndpointsRejectNegativeDuration ==
    /\ (Did("ai_size") /\ Negative(request.body.estimated_duration))
           => response.status = 422
    /\ (Did("ai_rank") /\ \E i \in 1..Len(request.items) :
                             Negative(request.items[i].estimated_duration))
           => response.status = 422

\* C13: after any sequence of requests the store holds at most one priority
\* score row and at most one t-shirt score row for each task id.
C13_OneRecordPerTask ==
    /\ \A r, q \in task_priority_scores : r.task_id = q.task_id => r = q
    /\ \A r, q \in task_tshirt_scores : r.task_id = q.task_id => r = q

\* a second row for a task id that has one was asked for, and was refused
C13_Witness ==
    /\ Did("create_score") /\ response.status = 500
    /\ ByTask(task_priority_scores, request.body.task_id) # {}

\* the rows of a score table that belong to other tasks than those of ids
Others(rows, ids) == {r \in rows : r.task_id \notin ids}

\* the request just served persisted a size for the task it returns
PersistedSizeFor ==
    IF response'.status # 200 THEN {}
    ELSE IF request'.op = "ai_size" /\ request'.persist /\ TruthyInt(request'.body.task_id)
    THEN {request'.body.task_id.val}
    ELSE IF request'.op = "task_ai_size" /\ request'.persist
    THEN {request'.task_id}
    ELSE {}

\* the request just served persisted the priority scores it returns
PersistedRank == request'.op = "ai_rank" /\ request'.persist /\ response'.status = 200

\* the score the response gives last for the task t
LastScoreFor(results, t) ==
    LET last == CHOOSE i \in 1..Len(results) :
                    /\ results[i].task_id = t
                    /\ \A j \in (i + 1)..Len(results) : results[j].task_id # t
    IN  results[last].priority_score

\* C14: persisting is an upsert.  A persisting /ai/size request or
\* /tasks/{task_id}/ai/size call answered 200 leaves exactly one t-shirt row
\* for its task, holding the size and rationale of the response, and every
\* item of a persisting /ai/rank request answered 200 leaves exactly one
\* priority row for its task, holding the score the response gives for it
\* (the last one, when the request lists the task twice); this holds
\* whether or not the task had a row before, and the rows of every other
\* task are left as they were.
C14_PersistIsUpsert ==
    [][ /\ \A t \in PersistedSizeFor :
              /\ \E r \in task_tshirt_scores' :
                     /\ ByTask(task_tshirt_scores', t) = {r}
                     /\ r.tshirt_size = response'.body.recommended_size
                     /\ r.rationale = Some(response'.body.rationale)
              /\ Others(task_tshirt_scores', {t}) = Others(task_tshirt_scores, {t})
              /\ task_priority_scores' = task_priority_scores
        /\ PersistedRank =>
              LET results == response'.body.results
                  named == {results[i].task_id : i \in 1..Len(results)}
              IN  /\ \A t \in named :
                         \E r \in task_priority_scores' :
                             /\ ByTask(task_priority_scores', t) = {r}
                             /\ r.score = LastScoreFor(results, t)
                  /\ Others(task_priority_scores', named) = Others(task_priority_scores, named)
                  /\ task_tshirt_scores' = task_tshirt_scores
      ]_vars

\* a size was persisted for a task whose row is older than the row of
\* another task: the row was there before the request and was updated
C14_Witness ==
    /\ Did("ai_size") /\ request.persist /\ response.status = 200
    /\ TruthyInt(request.body.task_id)
    /\ \E r \in ByTask(task_tshirt_scores, request.body.task_id.val) :
           /\ r.tshirt_size = response.body.recommended_size
           /\ \E q \in task_tshirt_scores : q.task_id # r.task_id /\ q.id > r.id

\* C15: after any sequence of requests every stored priority score is an
\* integer in 1..100 and every stored t-shirt size is one of XS, S, M, L, XL.
C15_StoredScoresValid ==
    /\ \A r \in task_priority_scores : r.score \in 1..100
    /\ \A r \in task_tshirt_scores : r.tshirt_size \in allowed_sizes

Exists(task_id) == ById(tasks, task_id) # {}

\* C16: referential integrity.  After any sequence of requests every
\* priority score row, t-shirt score row and dependency row names only tasks
\* the tasks table holds, and a request to create such a row for a task id
\* no task has is answered with a client error.
C16_ReferentialIntegrity ==
    /\ \A r \in task_priority_scores \cup task_tshirt_scores : Exists(r.task_id)
    /\ \A d \in task_dependencies : Exists(d.task_id) /\ Exists(d.depends_on_task_id)
    /\ ((Did("create_score") \/ Did("create_tshirt")) /\ ~Exists(request.body.task_id))
           => response.status \in ClientError
    /\ (Did("create_dep") /\ ~(Exists(request.body.task_id)
                               /\ Exists(request.body.depends_on_task_id)))
           => response.status \in ClientError

\* the ids without a task that the items of a request name
MissingNamed(items) ==
    {items[i].task_id.val : i \in {j \in 1..Len(items) :
        items[j].task_id.some /\ ~Exists(items[j].task_id.val)}}

\* C17: with persist, a well-formed /ai/rank request with an item, or a
\* well-formed /ai/size request, that names a task_id no task has is
\* answered 400 and leaves the score rows of that id as they were;
\* /tasks/{task_id}/ai/size on a task_id no task has is answered 404 and
\* writes nothing.
C17_MissingTaskRejected ==
    [][ /\ (/\ request'.op = "ai_rank" /\ request'.persist
            /\ \A i \in 1..Len(request'.items) : AIRankRequestTaskAccepts(request'.items[i]))
           => \A t \in MissingNamed(request'.items) :
                  /\ response'.status = 400
                  /\ ByTask(task_priority_scores', t) = ByTask(task_priority_scores, t)
                  /\ ByTask(task_tshirt_scores', t) = ByTask(task_tshirt_scores, t)
        /\ (/\ request'.op = "ai_size" /\ request'.persist
            /\ TaskSizeRequestAccepts(request'.body)
            /\ request'.body.task_id.some /\ ~Exists(request'.body.task_id.val))
           => /\ response'.status = 400
              /\ ByTask(task_priority_scores', request'.body.task_id.val)
                     = ByTask(task_priority_scores, request'.body.task_id.val)
              /\ ByTask(task_tshirt_scores', request'.body.task_id.val)
                     = ByTask(task_tshirt_scores, request'.body.task_id.val)
        /\ (request'.op = "task_ai_size" /\ ~Exists(request'.task_id))
           => response'.status = 404 /\ UNCHANGED db
      ]_vars

\* the same, for the ids other than 0
MissingTaskRejectedButZero ==
    [][ /\ (/\ request'.op = "ai_rank" /\ request'.persist
            /\ \A i \in 1..Len(request'.items) : AIRankRequestTaskAccepts(request'.items[i]))
           => \A t \in MissingNamed(request'.items) :
                  /\ response'.status = 400
                  /\ ByTask(task_priority_scores', t) = ByTask(task_priority_scores, t)
        /\ (/\ request'.op = "ai_size" /\ request'.persist
            /\ TaskSizeRequestAccepts(request'.body)
            /\ TruthyInt(request'.body.task_id) /\ ~Exists(request'.body.task_id.val))
           => /\ response'.status = 400
              /\ UNCHANGED db
        /\ (request'.op = "task_ai_size" /\ ~Exists(request'.task_id))
           => response'.status = 404 /\ UNCHANGED db
      ]_vars

\* the task representations the answer carries
TasksReturned ==
    IF response.status # 200 THEN {}
    ELSE IF Did("create_task") \/ Did("get_task") \/ Did("update_task") THEN {response.body}
    ELSE IF Did("get_tasks") THEN response.body.tasks
    ELSE {}

\* C18: every task representation returned by the task endpoints (create,
\* get by id, list, update) carries a priority_score in 1..100, whether or
\* not a priority score row is stored for the task.
C18_ReturnedPriorityInRange == \A t \in TasksReturned : t.priority_score \in 1..100

\* clamp(100 - days*5 - duration*3, 1, 100), days counted from today's date
\* to the deadline's
StatedPriority(deadline, duration) ==
    LET days == Date(deadline.wall) - Date(clock + zone)
        raw == 100 - days * 5 - duration * 3
    IN  IF raw < 1 THEN 1 ELSE IF raw > 100 THEN 100 ELSE raw

\* C19: a task created with a deadline and an estimated duration and without
\* an explicit priority_score is returned with the priority_score
\* clamp(100 - days*5 - duration*3, 1, 100): 63 for a deadline 5 days ahead
\* and a duration of 4.
C19_CreatedPriorityFollowsFormula ==
    (/\ Did("create_task") /\ response.status = 200
     /\ Has(request.body, "deadline") /\ request.body.deadline.kind = "datetime"
     /\ Has(request.body, "estimated_duration") /\ request.body.estimated_duration.some
     /\ ~Has(request.body, "priority_score"))
        => response.body.priority_score
               = StatedPriority(request.body.deadline, request.body.estimated_duration.val)

\* the request just served is a task create or update whose status is a
\* text other than the four allowed
CarriesOtherStatus ==
    /\ request'.op \in {"create_task", "update_task"}
    /\ Has(request'.body, "status")
    /\ request'.body.status.some
    /\ request'.body.status.val \notin allowed_statuses

\* C20: after any sequence of task creates and updates, updates that send a
\* field as null included, the stored status of every task is one of
\* pending, in_progress, completed, blocked; a create or update carrying
\* any other status is answered with a client error and leaves the tasks as
\* they were.
C20_StatusAlwaysAllowed ==
    [][ /\ \A t \in tasks' : t.status.some /\ t.status.val \in allowed_statuses
        /\ CarriesOtherStatus => (response'.status \in ClientError /\ UNCHANGED db)
      ]_vars

\* the rejection alone: a status text outside the four is answered 422 and
\* changes nothing
OtherStatusRejected ==
    [][ CarriesOtherStatus => (response'.status = 422 /\ UNCHANGED db) ]_vars

-----------------------------------------------------------------------------
(* The application some way into its life: two users with one task each,   *)
(* a priority score and a t-shirt score for either task, and the two       *)
(* tasks depending on each other.                                          *)

PlanOf(id, user_id) ==
    [id |-> id, user_id |-> user_id, title |-> "Plan", description |-> NoneText,
     deadline |-> Stored(ApiDeadline), estimated_duration |-> ApiDuration,
     status |-> Some("pending")]

InitPopulated ==
    /\ clock = 0
    /\ zone = 0
    /\ call = [fn |-> "none"]
    /\ ret = NoRet
    /\ pc = "serving"
    /\ users = Users
    /\ tasks = {PlanOf(u, u) : u \in Users}
    /\ task_priority_scores = {[id |-> u, task_id |-> u, score |-> 50] : u \in Users}
    /\ task_tshirt_scores =
           {[id |-> u, task_id |-> u, tshirt_size |-> "M",
             rationale |-> Some("User specified")] : u \in Users}
    /\ task_dependencies =
           {[id |-> u, task_id |-> u, depends_on_task_id |-> (u % MaxUsers) + 1] :
                u \in Users}
    /\ request = [op |-> "none"] /\ response = [status |-> 0]
    /\ served = 0
    /\ inflight = << >>
    /\ deleted = {}

SpecPopulated == InitPopulated /\ [][Next]_vars

\* the request just served deleted a task, or a user
DeletedTask == request'.op = "delete_task" /\ response'.status = 200
DeletedUser == request'.op = "delete_user" /\ response'.status = 200

\* no score and no dependency row names one of the tasks ids
NothingLeftOf(ids) ==
    /\ \A r \in task_priority_scores' \cup task_tshirt_scores' : r.task_id \notin ids
    /\ \A d \in task_dependencies' : d.task_id \notin ids /\ d.depends_on_task_id \notin ids

\* C21: a task delete answered 200 removes, in that one step, the task, its
\* priority score, its t-shirt score and every dependency row that names it
\* as the dependent or as the depended-on task, and every other task stays
\* as it was; a user delete answered 200 removes the user's tasks with the
\* scores and dependency rows of those tasks.
C21_DeleteCascades ==
    [][ /\ DeletedTask =>
              /\ tasks' = {t \in tasks : t.id # request'.task_id}
              /\ ById(tasks, request'.task_id) # {}
              /\ NothingLeftOf({request'.task_id})
        /\ DeletedUser =>
              LET owned == {t \in tasks : t.user_id = request'.user_id}
              IN  /\ tasks' = tasks \ owned
                  /\ NothingLeftOf({t.id : t \in owned})
      ]_vars

\* the first request deleted one of the two tasks: the other task and its
\* two scores are there, the two dependency rows are gone
C21_Witness ==
    /\ Did("delete_task") /\ response.status = 200 /\ served = 1
    /\ tasks # {} /\ task_priority_scores # {} /\ task_tshirt_scores # {}
    /\ task_dependencies = {}

\* the first request deleted a user: the other user's task and its scores
\* are there, the two dependency rows are gone
UserDeleteCascaded ==
    /\ Did("delete_user") /\ response.status = 200 /\ served = 1
    /\ tasks # {} /\ task_priority_scores # {} /\ task_tshirt_scores # {}
    /\ task_dependencies = {}

\* C22: dependency pairs are unique.  After any sequence of requests there
\* is at most one row of task_dependencies for each ordered pair (task_id,
\* depends_on_task_id): creating a pair that is there already adds no row.
C22_DependencyPairsUnique ==
    \A d, e \in task_dependencies :
        (d.task_id = e.task_id /\ d.depends_on_task_id = e.depends_on_task_id) => d = e

\* the request just served updated a task
UpdatedTask == request'.op = "update_task" /\ response'.status = 200

\* C23: a task update answered 200 changes only the columns its body
\* carries: every column the body leaves out holds the value it held, the
\* priority scores are as they were when the body has no priority_score,
\* the t-shirt scores are as they were when it has no tshirt_size, and no
\* other task and no dependency row is touched.
C23_UpdateIsPartial ==
    [][ UpdatedTask =>
            LET id == request'.task_id
                body == request'.body
            IN  /\ \E old \in ById(tasks, id), new \in ById(tasks', id) :
                       \A c \in DOMAIN old : ~Has(body, c) => new[c] = old[c]
                /\ ~Has(body, "priority_score") =>
                       task_priority_scores' = task_priority_scores
                /\ ~Has(body, "tshirt_size") =>
                       task_tshirt_scores' = task_tshirt_scores
                /\ {t \in tasks' : t.id # id} = {t \in tasks : t.id # id}
                /\ UNCHANGED <<users, task_dependencies>>
      ]_vars

\* the first request set the status of a task: the task has the new status
\* and the title, deadline and duration it had, and both scores are there
C23_Witness ==
    /\ Did("update_task") /\ response.status = 200 /\ served = 1
    /\ Has(request.body, "status")
    /\ \E t \in Named :
           /\ t.status = request.body.status /\ t.status # Some("pending")
           /\ t = [PlanOf(t.id, t.user_id) EXCEPT !.status = t.status]
    /\ ByTask(task_priority_scores, request.task_id) # {}
    /\ ByTask(task_tshirt_scores, request.task_id) # {}

\* the request just served is a get, a delete or an update that TaskUpdate
\* accepts, addressed to the task id
Addressed(id) ==
    /\ request'.op \in {"get_task", "update_task", "delete_task"}
    /\ request'.task_id = id
    /\ request'.op = "update_task" => TaskUpdateAccepts(request'.body)

\* C25: once a task delete has been answered 200, every later get, update
\* or delete addressed to that id is answered 404 and no later task list
\* holds a task of that id; a delete of an id that no task has is answered
\* 404 and changes no table.
C25_DeletedStaysDeleted ==
    [][ /\ \A id \in deleted :
               /\ Addressed(id) => response'.status = 404
               /\ request'.op = "get_tasks" =>
                      \A t \in response'.body.tasks : t.id # id
        /\ (request'.op = "delete_task" /\ ById(tasks, request'.task_id) = {})
               => (response'.status = 404 /\ UNCHANGED db)
      ]_vars

\* a delete of an id no task has is answered 404 and changes nothing
DeleteOfMissingIs404 ==
    [][ (request'.op = "delete_task" /\ ById(tasks, request'.task_id) = {})
            => (response'.status = 404 /\ UNCHANGED db) ]_vars

\* the claim holds for as long as no task is created after the delete: an
\* id that was deleted and that no task has is answered 404
DeletedAndNotReusedIs404 ==
    [][ \A id \in deleted :
            (Addressed(id) /\ ById(tasks, id) = {}) => response'.status = 404 ]_vars

-----------------------------------------------------------------------------
(* A scoring function called twice with the same arguments: the first      *)
(* call, then possibly the persisting of its result as /ai/size and        *)
(* /ai/rank persist it, possibly the passing of time, then the second      *)
(* call.                                                                   *)

\* the calls made twice: every duration and deadline, one title
TwiceCalls ==
    {c \in SizeCalls \cup ScoreCalls : c.title \in {"", "Plan"} /\ c.description = NoneText}

InitTwice ==
    /\ clock \in Clocks
    /\ zone \in Zones
    /\ call \in TwiceCalls
    /\ ret = NoRet
    /\ pc = "ready"
    /\ users = Users
    /\ tasks = {PlanOf(1, 1)}
    /\ task_priority_scores = {} /\ task_tshirt_scores = {}
    /\ task_dependencies = {}
    /\ request = [op |-> "none"] /\ response = [status |-> 0]
    /\ served = 0
    /\ inflight = << >>
    /\ deleted = {}

\* what the call returns at the instant now (UTC) on a server of utcoffset
\* off
ResultAt(c, now, off) ==
    IF c.fn = "_estimate_task_size"
    THEN LET r == _estimate_task_size(c.title, c.description, c.estimated_duration,
                                      c.deadline, c.has_dependencies, now)
         IN  [NoRet EXCEPT !.complexity_score = r.complexity_score,
                           !.factors = r.factors,
                           !.size = r.size,
                           !.rationale = r.rationale]
    ELSE [NoRet EXCEPT !.priority_score =
              _compute_score(c.deadline, c.estimated_duration, now + off)]

\* the result of the first call is stored for task 1, as the persisting
\* endpoints store it
PersistBetween ==
    /\ pc \in {"done", "later"}
    /\ IF call.fn = "_estimate_task_size"
       THEN /\ task_tshirt_scores' =
                   UpsertTshirt(task_tshirt_scores, 1, ret.size, ret.rationale)
            /\ UNCHANGED task_priority_scores
       ELSE /\ task_priority_scores' =
                   {[id |-> 1, task_id |-> 1, score |-> ret.priority_score]}
            /\ UNCHANGED task_tshirt_scores
    /\ UNCHANGED <<clock, zone, call, ret, pc, users, tasks, task_dependencies,
                   request, response, served, inflight, deleted>>

\* the clock goes from the first to the last second of the day
Tick ==
    /\ pc = "done"
    /\ \E later \in Clocks : later > clock /\ clock' = later
    /\ pc' = "later"
    /\ UNCHANGED <<zone, call, ret, api>>

\* the second call, with the arguments of the first; its result is kept
\* next to the first one
CallAgain ==
    /\ pc \in {"done", "later"}
    /\ response' = Ok(ResultAt(call, clock, zone))
    /\ pc' = IF pc = "done" THEN "again" ELSE "again later"
    /\ UNCHANGED <<clock, zone, call, ret, db, request, served, inflight, deleted>>

NextTwice == EstimateTaskSize \/ ComputeScore \/ PersistBetween \/ Tick \/ CallAgain

SpecTwice == InitTwice /\ [][NextTwice]_vars

LaterCallDiffers == pc = "again later" /\ response.body # ret

\* the request just served came from the user u: the endpoint asks for the
\* current user and it is u
SentBy(u) == Has(request', "caller") /\ request'.caller = u

\* the ids of the tasks the step removed
Removed == {t.id : t \in tasks} \ {t.id : t \in tasks'}

\* C27: no request changes a task of another user.  In every step, a task
\* whose owner did not send the request stays as it is, with its priority
\* score, its t-shirt score and its dependency rows (but for the rows that
\* go with a task removed on their other side), and a get, update or
\* delete addressed to it is answered 403.
C27_OthersCannotChange ==
    [][ \A t \in tasks : ~SentBy(t.user_id) =>
            /\ t \in tasks'
            /\ ByTask(task_priority_scores', t.id) = ByTask(task_priority_scores, t.id)
            /\ ByTask(task_tshirt_scores', t.id) = ByTask(task_tshirt_scores, t.id)
            /\ ByTask(task_dependencies', t.id) =
                   {d \in ByTask(task_dependencies, t.id) :
                        d.depends_on_task_id \notin Removed}
            /\ (/\ request'.op \in {"get_task", "update_task", "delete_task"}
                /\ request'.task_id = t.id
                /\ request'.op = "update_task" => TaskUpdateAccepts(request'.body))
                   => response'.status = 403
      ]_vars

\* the part of it the task endpoints keep: a get, update or delete of a
\* task by a user who does not own it is answered 403 and changes no table
TaskEndpointsAnswer403 ==
    [][ \A t \in tasks :
            (/\ request'.op \in {"get_task", "update_task", "delete_task"}
             /\ request'.task_id = t.id
             /\ ~SentBy(t.user_id)
             /\ request'.op = "update_task" => TaskUpdateAccepts(request'.body))
                => (response'.status = 403 /\ UNCHANGED db)
      ]_vars

\* the request just served was a persisting /ai/rank answered 400
RankRejected == request'.op = "ai_rank" /\ request'.persist /\ response'.status = 400

\* C28: a persisting /ai/rank request is all-or-nothing.  When it is answered
\* 400 because of some item (no task_id, or a task that does not exist),
\* the stored priority scores are what they were before the request,
\* whatever valid items come before that item in the list.
C28_RankAllOrNothing ==
    [][ RankRejected => task_priority_scores' = task_priority_scores ]_vars

\* what holds of a rejected request: the items before the one that stopped
\* it are stored, nothing else is touched
RankRejectedKeepsEarlierItems ==
    [][ RankRejected =>
            LET items == request'.items
                stop == CHOOSE k \in 1..Len(items) :
                            /\ ~(TruthyInt(items[k].task_id) /\ Exists(items[k].task_id.val))
                            /\ \A j \in 1..(k - 1) :
                                   TruthyInt(items[j].task_id) /\ Exists(items[j].task_id.val)
                before == {items[j].task_id.val : j \in 1..(stop - 1)}
            IN  /\ \A t \in before : ByTask(task_priority_scores', t) # {}
                /\ Others(task_priority_scores', before) = Others(task_priority_scores, before)
                /\ UNCHANGED <<users, tasks, task_tshirt_scores, task_dependencies>>
      ]_vars

\* the request just served was a persisting /ai/size that its model accepts
\* and that names no task
SizeWithoutId ==
    /\ request'.op = "ai_size" /\ request'.persist
    /\ TaskSizeRequestAccepts(request'.body)
    /\ ~request'.body.task_id.some

\* the request just served was a persisting /ai/rank that its model accepts
\* and that has an item naming no task
RankWithoutId ==
    /\ request'.op = "ai_rank" /\ request'.persist
    /\ \A i \in 1..Len(request'.items) : AIRankRequestTaskAccepts(request'.items[i])
    /\ \E i \in 1..Len(request'.items) : ~request'.items[i].task_id.some

\* C30: /ai/size and /ai/rank differ on a missing task_id.  A persisting
\* /ai/size request without task_id is answered 200 with the estimate and
\* leaves the stored t-shirt scores as they were; a persisting /ai/rank
\* request with an item without task_id is answered 400.
C30_MissingIdSizeVersusRank ==
    [][ /\ SizeWithoutId =>
              /\ response'.status = 200
              /\ response'.body.recommended_size \in allowed_sizes
              /\ task_tshirt_scores' = task_tshirt_scores
        /\ RankWithoutId => response'.status = 400
      ]_vars

\* the first request was a persisting /ai/size without task_id: it got its
\* size, and the two stored t-shirt scores are the two there were
C30_Witness ==
    /\ served = 1
    /\ Did("ai_size") /\ request.persist /\ ~request.body.task_id.some
    /\ response.status = 200
    /\ task_tshirt_scores =
           {[id |-> u, task_id |-> u, tshirt_size |-> "M",
             rationale |-> Some("User specified")] : u \in Users}

\* a persisting /ai/rank whose second item names no task was answered 400
RankItemWithoutIdRejected ==
    /\ Did("ai_rank") /\ request.persist /\ response.status = 400
    /\ Len(request.items) = 2
    /\ request.items[1].task_id.some /\ ~request.items[2].task_id.some

-----------------------------------------------------------------------------
(* Two requests handled side by side.  Each handler runs in a thread of    *)
(* its own with a Session of its own (app/database.py, get_db): it reads   *)
(* the rows it needs, and db.commit() later flushes its INSERT or UPDATE   *)
(* and commits, SQLite letting one connection write at a time.  Between    *)
(* the reads of one handler and its commit the other handler may read or   *)
(* commit.  Both requests address task 1, which has no score yet.          *)

Workers == {1, 2}

\* bodies of PUT /tasks/1: two values for each of three fields
RaceUpdateBodies ==
    { [status |-> Some("blocked")], [status |-> Some("completed")],
      [priority_score |-> Some(50)], [priority_score |-> Some(100)],
      [tshirt_size |-> Some("L")], [tshirt_size |-> Some("S")] }

\* the requests: updates by the owner, and the three persisting endpoints
RaceRequests ==
    {[op |-> "update_task", caller |-> 1, task_id |-> 1, body |-> b] :
        b \in RaceUpdateBodies}
    \cup {[op |-> "ai_rank", items |-> <<i>>, persist |-> TRUE] :
              i \in {RankItem(Some(1), ApiDeadline, ApiDuration),
                     RankItem(Some(1), NoDeadline, NoneInt)}}
    \cup {[op |-> "ai_size", body |-> b, persist |-> TRUE] :
              b \in {SizeBody("Plan", Some(1), ApiDeadline, ApiDuration),
                     SizeBody("Plan", Some(1), NoDeadline, Some(25))}}
    \cup {[op |-> "task_ai_size", task_id |-> 1, persist |-> TRUE]}

\* the task a request addresses
TaskOf(req) ==
    CASE req.op = "ai_rank" -> req.items[1].task_id.val
      [] req.op = "ai_size" -> req.body.task_id.val
      [] OTHER -> req.task_id

\* the score table a request writes to, if any
WritesPriority(req) ==
    \/ req.op = "ai_rank"
    \/ req.op = "update_task" /\ Field(req.body, "priority_score", NoneInt).some
WritesTshirt(req) ==
    \/ req.op \in {"ai_size", "task_ai_size"}
    \/ req.op = "update_task" /\ Field(req.body, "tshirt_size", NoneText).some

\* a handler that has read nothing yet
Received(req) ==
    [request |-> req, pc |-> "received", task |-> {}, existing |-> {},
     response |-> [status |-> 0]]

InitRace ==
    /\ clock = 0
    /\ zone = 0
    /\ call = [fn |-> "none"]
    /\ ret = NoRet
    /\ pc = "serving"
    /\ users = Users
    /\ tasks = {PlanOf(1, 1)}
    /\ task_priority_scores = {} /\ task_tshirt_scores = {}
    /\ task_dependencies = {}
    /\ request = [op |-> "none"] /\ response = [status |-> 0]
    /\ served = 0
    /\ inflight \in [Workers -> {Received(req) : req \in RaceRequests}]
    /\ deleted = {}

\* the reads of a handler: the task row, and the score row of the task in
\* the table the request writes to
Load(w) ==
    LET h == inflight[w]
        req == h.request
    IN  /\ h.pc = "received"
        /\ inflight' =
               [inflight EXCEPT ![w] =
                   [h EXCEPT !.pc = "loaded",
                             !.task = ById(tasks, TaskOf(req)),
                             !.existing =
                                 IF WritesPriority(req)
                                 THEN ByTask(task_priority_scores, TaskOf(req))
                                 ELSE IF WritesTshirt(req)
                                 THEN ByTask(task_tshirt_scores, TaskOf(req))
                                 ELSE {}]]
        /\ UNCHANGED <<clock, zone, call, ret, pc, db, request, response, served, deleted>>

NoFields == [f \in {} |-> 0]

\* the flush of a session that set columns of a score row: an UPDATE, by
\* id, of the columns it changed on the row it read, or the INSERT of a
\* new row, which UNIQUE(task_id) refuses when the task has a row by now
FlushScore(rows, existing, task_id, set, rest) ==
    IF existing # {}
    THEN LET read == TheRow(existing)
             changed == {f \in DOMAIN set : set[f] # read[f]}
         IN  IF ById(rows, read.id) = {} THEN [status |-> 500, rows |-> rows]
             ELSE [status |-> 200,
                   rows |-> {IF r.id = read.id
                             THEN [f \in DOMAIN r |-> IF f \in changed THEN set[f] ELSE r[f]]
                             ELSE r : r \in rows}]
    ELSE IF ByTask(rows, task_id) # {} THEN [status |-> 500, rows |-> rows]
    ELSE [status |-> 200,
          rows |-> rows \cup {[id |-> NextId(rows), task_id |-> task_id] @@ set @@ rest}]

\* db.commit() of a handler and its answer; an IntegrityError rolls the
\* transaction back and leaves the handler as a 500
Commit(w) ==
    LET h == inflight[w]
        req == h.request
        id == TaskOf(req)
        loaded == TheRow(h.task)
        current == TheRow(ById(tasks, id))
        estimate ==
            IF req.op = "ai_size"
            THEN _estimate_task_size(req.body.title.val, req.body.description,
                                     req.body.estimated_duration, req.body.deadline,
                                     req.body.has_dependencies, clock)
            ELSE _estimate_task_size(loaded.title, loaded.description,
                                     loaded.estimated_duration, loaded.deadline,
                                     ByTask(task_dependencies, id) # {}, clock)
        set == CASE req.op = "ai_rank" ->
                        [score |-> _compute_score(req.items[1].deadline,
                                                  req.items[1].estimated_duration,
                                                  clock + zone)]
                 [] req.op = "update_task" /\ WritesPriority(req) ->
                        [score |-> req.body.priority_score.val]
                 [] req.op = "update_task" /\ WritesTshirt(req) ->
                        [tshirt_size |-> req.body.tshirt_size.val]
                 [] req.op \in {"ai_size", "task_ai_size"} ->
                        [tshirt_size |-> estimate.size,
                         rationale |-> Some(estimate.rationale)]
                 [] OTHER -> NoFields
        rest == IF req.op = "update_task" /\ WritesTshirt(req)
                THEN [rationale |-> NoneText] ELSE NoFields
        flushed ==
            IF WritesPriority(req)
            THEN FlushScore(task_priority_scores, h.existing, id, set, rest)
            ELSE IF WritesTshirt(req)
            THEN FlushScore(task_tshirt_scores, h.existing, id, set, rest)
            ELSE [status |-> 200, rows |-> {}]
        ok == flushed.status = 200
        \* UPDATE tasks SET the columns the handler changed WHERE id = ...
        wanted == IF req.op = "update_task" THEN SetColumns(loaded, req.body) ELSE loaded
        updated == [c \in DOMAIN current |->
                       IF wanted[c] # loaded[c] THEN wanted[c] ELSE current[c]]
        answer ==
            IF ~ok THEN Error(500)
            ELSE CASE req.op = "update_task" -> Ok(TaskOut(updated))
                   [] req.op = "ai_rank" ->
                          Ok([results |-> <<[task_id |-> id, priority_score |-> set.score]>>])
                   [] OTHER -> AISizeResponse(estimate)
    IN  /\ h.pc = "loaded"
        /\ tasks' = IF ok THEN (tasks \ {current}) \cup {updated} ELSE tasks
        /\ task_priority_scores' =
               IF ok /\ WritesPriority(req) THEN flushed.rows ELSE task_priority_scores
        /\ task_tshirt_scores' =
               IF ok /\ WritesTshirt(req) THEN flushed.rows ELSE task_tshirt_scores
        /\ inflight' = [inflight EXCEPT ![w] =
                           [h EXCEPT !.pc = "answered", !.response = answer]]
        /\ request' = req
        /\ response' = answer
        /\ served' = served + 1
        /\ UNCHANGED <<clock, zone, call, ret, pc, users, task_dependencies, deleted>>

NextRace == \E w \in Workers : Load(w) \/ Commit(w)

SpecRace == InitRace /\ [][NextRace]_vars

\* both handlers have answered
BothAnswered == \A w \in Workers : inflight[w].pc = "answered"

\* both requests are updates that carry the field f
BothUpdate(f) ==
    \A w \in Workers :
        inflight[w].request.op = "update_task" /\ Has(inflight[w].request.body, f)

\* what is stored for the field f of task 1
StoredField(f) ==
    CASE f = "priority_score" -> {Some(r.score) : r \in ByTask(task_priority_scores, 1)}
      [] f = "tshirt_size" -> {Some(r.tshirt_size) : r \in ByTask(task_tshirt_scores, 1)}
      [] OTHER -> {t[f] : t \in ById(tasks, 1)}

\* both updates were answered 200 and the value stored for f is the one of
\* the update that committed last
LastWriteWins(f) ==
    /\ \A w \in Workers : inflight[w].response.status = 200
    /\ StoredField(f) = {request.body[f]}

\* C24: updates of one task follow last-write-wins.  When two updates of
\* task 1 that set the same field have been handled, in whatever
\* interleaving, both were answered 200, the task is there, and the value
\* stored for the field is the value of the update that committed last.
C24_LastWriteWins ==
    \A f \in {"status", "priority_score", "tshirt_size"} :
        (BothAnswered /\ BothUpdate(f)) => LastWriteWins(f)

\* the same for the fields that are columns of the task itself
ColumnUpdatesLastWriteWins ==
    (BothAnswered /\ BothUpdate("status")) => LastWriteWins("status")

\* two updates of the status were handled, the one that committed last
\* having read the task before the other committed
ColumnUpdatesRaced ==
    /\ BothAnswered /\ BothUpdate("status")
    /\ inflight[1].request.body # inflight[2].request.body
    /\ request = inflight[2].request
    /\ inflight[2].task = {PlanOf(1, 1)}
    /\ \E t \in tasks : t.status = request.body.status

\* both requests are persisting calls of the scoring endpoints
BothPersistPriority == \A w \in Workers : inflight[w].request.op = "ai_rank"
BothPersistTshirt ==
    \A w \in Workers : inflight[w].request.op \in {"ai_size", "task_ai_size"}

\* C29: two persisting requests for one task without a stored record, in
\* whatever interleaving, are both answered 200 and leave exactly one
\* record for the task, holding the value one of the two returned.
C29_RacingPersistsBothSucceed ==
    /\ (BothAnswered /\ BothPersistPriority) =>
           /\ \A w \in Workers : inflight[w].response.status = 200
           /\ \E r \in task_priority_scores :
                  /\ task_priority_scores = {r} /\ r.task_id = 1
                  /\ \E w \in Workers :
                         r.score = inflight[w].response.body.results[1].priority_score
    /\ (BothAnswered /\ BothPersistTshirt) =>
           /\ \A w \in Workers : inflight[w].response.status = 200
           /\ \E r \in task_tshirt_scores :
                  /\ task_tshirt_scores = {r} /\ r.task_id = 1
                  /\ \E w \in Workers :
                         r.tshirt_size = inflight[w].response.body.recommended_size

\* what holds of two racing writers of one score table, updates included:
\* one of them at least is answered 200, the other 200 or 500, and the task
\* has exactly one record
RaceLeavesOneRecord ==
    /\ (BothAnswered /\ \A w \in Workers : WritesPriority(inflight[w].request)) =>
           /\ \E w \in Workers : inflight[w].response.status = 200
           /\ \E r \in task_priority_scores : task_priority_scores = {r} /\ r.task_id = 1
    /\ (BothAnswered /\ \A w \in Workers : WritesTshirt(inflight[w].request)) =>
           /\ \E w \in Workers : inflight[w].response.status = 200
           /\ \E r \in task_tshirt_scores : task_tshirt_scores = {r} /\ r.task_id = 1
    /\ \A w \in Workers : inflight[w].response.status \in {0, 200, 500}

====
